---- MODULE Spec2Model ----
(***************************************************************************)
(* ALTO Bot (kdsmedia/wow, src/server.js): the per-user interaction state  *)
(* machine of the WhatsApp bot.  One inbound message runs handleMessage;   *)
(* a handler runs without interruption up to its next `await`, where it is *)
(* parked (variable inflight) and resumed later by Resume, so handlers of  *)
(* the same or of different users overlap exactly at the awaits of the     *)
(* source.  The deadline of a task challenge is a setTimeout callback      *)
(* (variable timers), fired by TimerFire.  A user record is a JavaScript   *)
(* object: users maps an id to an object reference into heap, so a parked  *)
(* handler keeps the object it read even after /deleteuser.                *)
(***************************************************************************)
EXTENDS Integers, Sequences, FiniteSets, TLC

VARIABLES
    users,      \* this.users: user id -> object reference (0: no such key)
    heap,       \* the user objects, by reference
    tasks,      \* this.tasks: the task catalog, an array
    config,     \* this.config
    today,      \* the calendar date new Date().toDateString() returns now
    timers,     \* the scheduled, uncancelled, unfired setTimeout callbacks
    inflight,   \* the handleMessage calls parked at an await
    out,        \* the message.reply calls made by the last step
    received,   \* the number of inbound messages so far
    disk,       \* the content of users.json, tasks.json and config.json
    writes      \* the fs.writeFile calls nobody awaits, still in progress

vars == <<users, heap, tasks, config, today, timers, inflight, out, received, disk, writes>>

----------------------------------------------------------------------------
(* Bounds of the model *)

MaxMessages == 6    \* inbound messages of a run
MaxInFlight == 2    \* handleMessage calls parked at an await at once
MaxDay == 1         \* the calendar date runs over 0..MaxDay

----------------------------------------------------------------------------
(* JavaScript strings: trim, toLowerCase, toUpperCase, split, parseInt *)

LowerLetters == "abcdefghijklmnopqrstuvwxyz"
UpperLetters == "ABCDEFGHIJKLMNOPQRSTUVWXYZ"
Digits == "0123456789"

Char(s, i) == SubSeq(s, i, i)
Rest(s) == SubSeq(s, 2, Len(s))

IndexIn(alphabet, c) ==
    IF \E i \in 1..Len(alphabet) : Char(alphabet, i) = c
    THEN CHOOSE i \in 1..Len(alphabet) : Char(alphabet, i) = c
    ELSE 0

UpperChar(c) ==
    IF IndexIn(LowerLetters, c) > 0 THEN Char(UpperLetters, IndexIn(LowerLetters, c)) ELSE c

LowerChar(c) ==
    IF IndexIn(UpperLetters, c) > 0 THEN Char(LowerLetters, IndexIn(UpperLetters, c)) ELSE c

RECURSIVE toUpperCase(_)
toUpperCase(s) == IF s = "" THEN "" ELSE UpperChar(Char(s, 1)) \o toUpperCase(Rest(s))

RECURSIVE toLowerCase(_)
toLowerCase(s) == IF s = "" THEN "" ELSE LowerChar(Char(s, 1)) \o toLowerCase(Rest(s))

RECURSIVE trimStart(_)
trimStart(s) == IF s # "" /\ Char(s, 1) = " " THEN trimStart(Rest(s)) ELSE s

RECURSIVE trimEnd(_)
trimEnd(s) ==
    IF s # "" /\ Char(s, Len(s)) = " " THEN trimEnd(SubSeq(s, 1, Len(s) - 1)) ELSE s

trim(s) == trimEnd(trimStart(s))

\* s.split(' '): the pieces between single spaces, empty pieces kept
RECURSIVE splitFrom(_, _)
splitFrom(s, piece) ==
    IF s = "" THEN <<piece>>
    ELSE IF Char(s, 1) = " " THEN <<piece>> \o splitFrom(Rest(s), "")
    ELSE splitFrom(Rest(s), piece \o Char(s, 1))

split(s) == splitFrom(s, "")

startsWith(s, p) == Len(s) >= Len(p) /\ SubSeq(s, 1, Len(p)) = p

endsWith(s, p) == Len(s) >= Len(p) /\ SubSeq(s, Len(s) - Len(p) + 1, Len(s)) = p

RECURSIVE join(_)
join(ws) == IF ws = <<>> THEN ""
            ELSE IF Len(ws) = 1 THEN ws[1]
            ELSE ws[1] \o " " \o join(Tail(ws))

\* args[i]: an array element, undefined past the end.  A value that may be
\* undefined is a sequence of at most one element.
at(arr, i) == IF i <= Len(arr) THEN <<arr[i]>> ELSE <<>>

slice(arr, n) == IF n >= Len(arr) THEN <<>> ELSE SubSeq(arr, n + 1, Len(arr))

\* A JavaScript number that may be NaN
NaN == [nan |-> TRUE, val |-> 0]
Num(n) == [nan |-> FALSE, val |-> n]
isNaN(v) == v.nan

hasDigit(s) == s # "" /\ IndexIn(Digits, Char(s, 1)) > 0

\* the value of the longest prefix of decimal digits of s
RECURSIVE digitsValue(_, _)
digitsValue(s, acc) ==
    IF hasDigit(s)
    THEN digitsValue(Rest(s), 10 * acc + (IndexIn(Digits, Char(s, 1)) - 1))
    ELSE acc

\* parseInt(s): leading white space skipped, an optional sign, then the longest
\* run of digits; NaN when there is none
parseIntStr(s) ==
    LET t == trimStart(s)
        neg == t # "" /\ Char(t, 1) = "-"
        pos == t # "" /\ Char(t, 1) = "+"
        d == IF neg \/ pos THEN Rest(t) ELSE t
    IN  IF ~hasDigit(d) THEN NaN
        ELSE IF neg THEN Num(0 - digitsValue(d, 0)) ELSE Num(digitsValue(d, 0))

----------------------------------------------------------------------------
(* The inbound message bodies of the model, and what the handlers compute  *)
(* from a text alone, tabulated once over these texts.                     *)

UserBodies ==
    { "/menu", "/saldo", "/owner", "/tugas", "/clear", "/klaim", " /KLAIM", "/game",
      "/exitgame", " /ExitGame ", "/selesai 1", "/selesai 2", "/selesai", "/selesai x",
      "/gambar", "/gambar kucing", "/video", "/video kucing", "/foo", "halo",
      "1", "7", "51", " 51abc", "100", "I", " i ", "ZYPCDT", "zypcdt", "salah" }

AdminBodies ==
    { "/loginadmin admin123", "/loginadmin ADMIN123", "/loginadmin",
      "/listusers", "/listtugas",
      "/blockuser 1", "/blockuser 2@c.us", "/blockuser 3", "/unblockuser 1@c.us",
      "/deleteuser 1", "/deleteuser 2",
      "/addtugas 150 5 Jawab pertanyaan AI", "/addtugas -100 5 x", "/addtugas 0 1 x",
      "/addtugas 150 0 x", "/addtugas 150 -5 x", "/addtugas 150 5", "/addtugas x 5 y",
      "/addtugas 150 y z",
      "/hapustugas 1", "/hapustugas 2", "/hapustugas 9", "/hapustugas",
      "/setbonus 100 500", "/setbonus -500 -100", "/setbonus 500 100", "/setbonus x 5",
      "/setbonus 300 300", "/setbonus 10 20", "/setbonus 100" }

Bodies == UserBodies \cup AdminBodies

\* message.body.toLowerCase().trim()
commandOf == [body \in Bodies |-> trim(toLowerCase(body))]

\* message.body.trim().split(' ').slice(1)
argsOf == [body \in Bodies |-> slice(split(trim(body)), 1)]

\* command.split(' ')[0]
commandNameOf == [body \in Bodies |-> split(commandOf[body])[1]]

\* userInput.trim().toUpperCase()
upperOf == [body \in Bodies |-> toUpperCase(trim(body))]

Words == UNION {{argsOf[body][i] : i \in DOMAIN argsOf[body]} : body \in Bodies}

parseIntOf == [s \in Bodies \cup Words |-> parseIntStr(s)]

\* parseInt of a value that may be undefined (String(undefined) has no digit)
parseInt(v) == IF v = <<>> THEN NaN ELSE parseIntOf[v[1]]

----------------------------------------------------------------------------
(* Math.random(): a fraction <<numerator, denominator>> in [0, 1) *)

RandomDraws == {<<0, 1>>, <<1, 2>>, <<999, 1000>>}

\* Math.floor(Math.random() * n)
floorTimes(r, n) == (r[1] * n) \div r[2]

Base36 == "0123456789abcdefghijklmnopqrstuvwxyz"

\* the first n digits after the point of r.toString(36); the expansion of a
\* fraction that terminates stops there ((0).toString(36) is "0", 0.5 is "0.i")
RECURSIVE fracDigits36(_, _, _)
fracDigits36(num, den, n) ==
    IF n = 0 \/ num = 0 THEN ""
    ELSE Char(Base36, ((num * 36) \div den) + 1) \o fracDigits36((num * 36) % den, den, n - 1)

generateCaptcha(r) == toUpperCase(fracDigits36(r[1], r[2], 6))

----------------------------------------------------------------------------
(* The data *)

UserIds == {"1@c.us", "2@c.us"}

\* a run creates at most one user object and one timer per inbound message
ObjIds == 1..MaxMessages

TimerIds == 1..MaxMessages

NoObj == [free |-> TRUE]

NotWaiting == [isWaiting |-> FALSE]

NewUser(date) ==
    [ balance |-> 0,
      isBlocked |-> FALSE,
      lastLogin |-> date,
      claimedDailyBonus |-> FALSE,
      completedTasksToday |-> <<>>,
      isAdmin |-> FALSE,
      captchaState |-> NotWaiting,
      inGame |-> FALSE,
      gameAnswer |-> 0 ]

DefaultConfig == [adminPassword |-> "admin123", dailyBonus |-> [min |-> 100, max |-> 500]]

GameReward == 250

NoHandler == [pc |-> "done"]

USERS_DB_PATH == "users"

TASKS_DB_PATH == "tasks"

CONFIG_PATH == "config"

\* The bot reads its files in loadData only, so what they hold never
\* influences a run; a specification that says nothing about the files
\* leaves them unobserved (NoStore) and every write is then NoWrite.
NoStore == [observed |-> FALSE]

\* the three files as loadData reads them before the first write: no users,
\* no tasks, the default configuration
EmptyStore ==
    [observed |-> TRUE, users |-> [u \in UserIds |-> NoObj], tasks |-> <<>>,
     config |-> DefaultConfig]

NoWrite == [path |-> ""]

Range(f) == {f[i] : i \in DOMAIN f}

includes(arr, x) == \E i \in DOMAIN arr : arr[i] = x

----------------------------------------------------------------------------
(* A handler's run from one await to the next is a function of the bot's   *)
(* state: a record m with the fields users, heap, tasks, config, timers it *)
(* reads and writes, out (the replies it has sent) and park (the await it  *)
(* has stopped at, NoHandler when it has returned).                        *)

reply(m, to, msg, val) ==
    [m EXCEPT !.out = Append(@, [to |-> to, msg |-> msg, val |-> val])]

\* JSON.stringify(data) of the value Storage.write is given: a copy of
\* this.users (each key with the record it refers to now), this.tasks or
\* this.config
stringify(m, path) ==
    CASE path = USERS_DB_PATH ->
             [u \in UserIds |-> IF m.users[u] = 0 THEN NoObj ELSE m.heap[m.users[u]]]
      [] path = TASKS_DB_PATH -> m.tasks
      [] path = CONFIG_PATH -> m.config

\* Storage.write(path, data) up to the call of fs.writeFile: the text to
\* write is fixed now, the file changes when the call completes
StorageWrite(m, path) ==
    IF m.disk.observed THEN [path |-> path, data |-> stringify(m, path)] ELSE NoWrite

\* fs.writeFile completes
writeFile(m, w) == IF w = NoWrite THEN m ELSE [m EXCEPT !.disk[w.path] = w.data]

\* the file the await at pc writes, "" for the awaits of the AI calls
pathAt(pc) ==
    CASE pc \in {"L455", "L478"} -> TASKS_DB_PATH
      [] pc = "L494" -> CONFIG_PATH
      [] pc \in {"L557", "L206", "L507", "L528"} -> ""
      [] OTHER -> USERS_DB_PATH

\* `await Storage.write(...)` and the other awaits: the handler stops at pc
await(m, pc, from, o, num) ==
    [m EXCEPT !.park = [pc |-> pc, from |-> from, body |-> "", user |-> o, num |-> num,
                        write |-> IF pathAt(pc) = "" THEN NoWrite
                                  ELSE StorageWrite(m, pathAt(pc))]]

\* Storage.write(USERS_DB_PATH, this.users) without await
writeUsers(m) ==
    IF m.disk.observed
    THEN [m EXCEPT !.writes = @ \cup {StorageWrite(m, USERS_DB_PATH)}]
    ELSE m

showMenu(m, from, o) ==
    reply(m, from, IF m.heap[o].isAdmin THEN "menuAdmin" ELSE "menu", 0)

\* a reset that forgets the list of completed tasks
dailyResetKeepsTasks(u, date) ==
    IF u.lastLogin # date
    THEN [u EXCEPT !.lastLogin = date, !.claimedDailyBonus = FALSE]
    ELSE u

\* a reset on every message
dailyResetAlways(u, date) ==
    [u EXCEPT !.lastLogin = date,
              !.claimedDailyBonus = FALSE,
              !.completedTasksToday = <<>>]

\* handleMessage: "Reset data harian"
dailyReset(u, date) ==
    IF u.lastLogin # date
    THEN [u EXCEPT !.lastLogin = date,
                   !.claimedDailyBonus = FALSE,
                   !.completedTasksToday = <<>>]
    ELSE u

\* a clearTimeout that cancels nothing
clearTimeoutNoop(m, timerId) == m

clearTimeout(m, timerId) == [m EXCEPT !.timers = {t \in @ : t.id # timerId}]

\* a timer id no scheduled timer and no challenge payload holds
usedTimerIds(m) ==
    {t.id : t \in m.timers} \cup
    {m.heap[x].captchaState.timerId :
        x \in {y \in ObjIds : /\ m.heap[y] # NoObj
                              /\ m.heap[y].captchaState.isWaiting
                              /\ m.heap[y].captchaState.type = "task"}}

freshTimerIds(m) == TimerIds \ usedTimerIds(m)

\* a target drawn from 0..99
startGameZeroBased(m, from, o, r) ==
    await([m EXCEPT !.heap[o].inGame = TRUE,
                    !.heap[o].gameAnswer = floorTimes(r, 100)],
          "L248", from, o, 0)

startGame(m, from, o, r) ==
    await([m EXCEPT !.heap[o].inGame = TRUE,
                    !.heap[o].gameAnswer = floorTimes(r, 100) + 1],
          "L248", from, o, 0)

\* a game that goes on after the winning guess
handleGameInputStays(m, from, o, input) ==
    IF commandOf[input] = "/exitgame"
    THEN await([m EXCEPT !.heap[o].inGame = FALSE], "L255", from, o, 0)
    ELSE LET guess == parseIntOf[input] IN
         IF isNaN(guess) THEN reply(m, from, "angkaTidakValid", 0)
         ELSE IF guess.val < m.heap[o].gameAnswer THEN reply(m, from, "terlaluRendah", 0)
         ELSE IF guess.val > m.heap[o].gameAnswer THEN reply(m, from, "terlaluTinggi", 0)
         ELSE await([m EXCEPT !.heap[o].balance = @ + GameReward],
                    "L271", from, o, GameReward)

handleGameInput(m, from, o, input) ==
    IF commandOf[input] = "/exitgame"
    THEN await([m EXCEPT !.heap[o].inGame = FALSE], "L255", from, o, 0)
    ELSE LET guess == parseIntOf[input] IN
         IF isNaN(guess) THEN reply(m, from, "angkaTidakValid", 0)
         ELSE IF guess.val < m.heap[o].gameAnswer THEN reply(m, from, "terlaluRendah", 0)
         ELSE IF guess.val > m.heap[o].gameAnswer THEN reply(m, from, "terlaluTinggi", 0)
         ELSE await([m EXCEPT !.heap[o].balance = @ + GameReward,
                              !.heap[o].inGame = FALSE],
                    "L271", from, o, GameReward)

\* a claim that does not look at claimedDailyBonus
handleClaimUnchecked(m, from, o, r) ==
    await([m EXCEPT !.heap[o].captchaState =
              [isWaiting |-> TRUE, type |-> "claim", answer |-> generateCaptcha(r)]],
          "L291", from, o, 0)

handleClaim(m, from, o, r) ==
    IF m.heap[o].claimedDailyBonus
    THEN reply(m, from, "sudahKlaim", 0)
    ELSE await([m EXCEPT !.heap[o].captchaState =
                    [isWaiting |-> TRUE, type |-> "claim", answer |-> generateCaptcha(r)]],
               "L291", from, o, 0)

\* this.tasks.find(t => t.id === taskId): the first match, as a sequence of
\* at most one task
find(arr, taskId) ==
    IF \E i \in DOMAIN arr : arr[i].id = taskId
    THEN <<arr[CHOOSE i \in DOMAIN arr :
                  arr[i].id = taskId /\ \A j \in 1..(i - 1) : arr[j].id # taskId]>>
    ELSE <<>>

\* a /selesai that does not look at completedTasksToday
handleSelesaiAgain(m, from, o, taskIdStr, r) ==
    LET taskId == parseInt(taskIdStr) IN
    IF isNaN(taskId) THEN reply(m, from, "idTidakValid", 0)
    ELSE LET task == find(m.tasks, taskId.val) IN
         IF task = <<>> THEN reply(m, from, "tugasTidakDitemukan", 0)
         ELSE LET timer == [id |-> CHOOSE i \in freshTimerIds(m) :
                                      \A j \in freshTimerIds(m) : i <= j,
                            from |-> from,
                            taskId |-> taskId.val]
              IN  await([m EXCEPT !.timers = @ \cup {timer},
                                  !.heap[o].captchaState =
                                      [isWaiting |-> TRUE,
                                       type |-> "task",
                                       task |-> task[1],
                                       answer |-> generateCaptcha(r),
                                       timerId |-> timer.id]],
                        "L343", from, o, 0)

handleSelesai(m, from, o, taskIdStr, r) ==
    LET taskId == parseInt(taskIdStr) IN
    IF isNaN(taskId) THEN reply(m, from, "idTidakValid", 0)
    ELSE LET task == find(m.tasks, taskId.val) IN
         IF task = <<>> THEN reply(m, from, "tugasTidakDitemukan", 0)
         ELSE IF includes(m.heap[o].completedTasksToday, taskId.val)
         THEN reply(m, from, "sudahSelesai", 0)
         ELSE LET timer == [id |-> CHOOSE i \in freshTimerIds(m) :
                                      \A j \in freshTimerIds(m) : i <= j,
                            from |-> from,
                            taskId |-> taskId.val]
              IN  await([m EXCEPT !.timers = @ \cup {timer},
                                  !.heap[o].captchaState =
                                      [isWaiting |-> TRUE,
                                       type |-> "task",
                                       task |-> task[1],
                                       answer |-> generateCaptcha(r),
                                       timerId |-> timer.id]],
                        "L343", from, o, 0)

\* a comparison that neither trims nor folds the case
answerMatchesExact(userInput, answer) == userInput = answer

\* a comparison that accepts every reply
answerMatchesAny(userInput, answer) == TRUE

\* verifyCaptcha: the comparison of the reply with the expected text
answerMatches(userInput, answer) == upperOf[userInput] = answer

\* a draw that forgets to add the lower end of the range
bonusRewardUnshifted(r, min, max) == floorTimes(r, max - min + 1)

\* verifyCaptcha: the daily bonus drawn from config.dailyBonus
bonusReward(r, min, max) == floorTimes(r, max - min + 1) + min

verifyCaptcha(m, from, o, userInput, r) ==
    LET cs == m.heap[o].captchaState
        m1 == IF cs.type = "task" THEN clearTimeout(m, cs.timerId) ELSE m
        m2 == [m1 EXCEPT !.heap[o].captchaState = NotWaiting]
    IN  IF answerMatches(userInput, cs.answer)
        THEN LET m3 == reply(m2, from, "captchaBenar", 0) IN
             IF cs.type = "task"
             THEN await([m3 EXCEPT !.heap[o].balance = @ + cs.task.bonus,
                                   !.heap[o].completedTasksToday = Append(@, cs.task.id)],
                        "L363", from, o, cs.task.bonus)
             ELSE LET reward == bonusReward(r, m.config.dailyBonus.min,
                                               m.config.dailyBonus.max)
                  IN  await([m3 EXCEPT !.heap[o].balance = @ + reward,
                                       !.heap[o].claimedDailyBonus = TRUE],
                            "L370", from, o, reward)
        ELSE await(reply(m2, from, "captchaSalah", 0), "L376", from, o, 0)

----------------------------------------------------------------------------
(* The admin commands *)

\* a gate that lets everybody through
checkAdminOpen(m, o) == TRUE

checkAdmin(m, o) == m.heap[o].isAdmin

refuse(m, from) == reply(m, from, "hanyaAdmin", 0)

\* a login that accepts whatever password it is given
handleLoginAdminAny(m, from, o, password) ==
    IF password # <<>>
    THEN reply([m EXCEPT !.heap[o].isAdmin = TRUE], from, "loginAdminOk", 0)
    ELSE reply(m, from, "sandiSalah", 0)

handleLoginAdmin(m, from, o, password) ==
    IF password = <<m.config.adminPassword>>
    THEN reply(writeUsers([m EXCEPT !.heap[o].isAdmin = TRUE]), from, "loginAdminOk", 0)
    ELSE reply(m, from, "sandiSalah", 0)

handleListUsers(m, from, o) ==
    IF ~checkAdmin(m, o) THEN refuse(m, from) ELSE reply(m, from, "daftarPengguna", 0)

\* userId.endsWith('@c.us') ? userId : `${userId}@c.us`
targetIdOf(userId) == IF endsWith(userId, "@c.us") THEN userId ELSE userId \o "@c.us"

\* this.users[targetId] is an object
hasUser(m, targetId) == targetId \in UserIds /\ m.users[targetId] # 0

\* a /blockuser anybody may send
handleBlockUserOpen(m, from, o, userIdToBlock) ==
    IF userIdToBlock = <<>> THEN m
    ELSE LET targetId == targetIdOf(userIdToBlock[1]) IN
         IF hasUser(m, targetId)
         THEN await([m EXCEPT !.heap[m.users[targetId]].isBlocked = TRUE],
                    "L414", from, o, 0)
         ELSE reply(m, from, "penggunaTidakDitemukan", 0)

\* a handler called with args[0] undefined throws at userId.endsWith: the
\* call ends there, with no reply
handleBlockUser(m, from, o, userIdToBlock) ==
    IF ~checkAdmin(m, o) THEN refuse(m, from)
    ELSE IF userIdToBlock = <<>> THEN m
    ELSE LET targetId == targetIdOf(userIdToBlock[1]) IN
         IF hasUser(m, targetId)
         THEN await([m EXCEPT !.heap[m.users[targetId]].isBlocked = TRUE],
                    "L414", from, o, 0)
         ELSE reply(m, from, "penggunaTidakDitemukan", 0)

handleUnblockUser(m, from, o, userIdToUnblock) ==
    IF ~checkAdmin(m, o) THEN refuse(m, from)
    ELSE IF userIdToUnblock = <<>> THEN m
    ELSE LET targetId == targetIdOf(userIdToUnblock[1]) IN
         IF hasUser(m, targetId)
         THEN await([m EXCEPT !.heap[m.users[targetId]].isBlocked = FALSE],
                    "L426", from, o, 0)
         ELSE reply(m, from, "penggunaTidakDitemukan", 0)

handleDeleteUser(m, from, o, userIdToDelete) ==
    IF ~checkAdmin(m, o) THEN refuse(m, from)
    ELSE IF userIdToDelete = <<>> THEN m
    ELSE LET targetId == targetIdOf(userIdToDelete[1]) IN
         IF hasUser(m, targetId)
         THEN await([m EXCEPT !.users[targetId] = 0], "L438", from, o, 0)
         ELSE reply(m, from, "penggunaTidakDitemukan", 0)

\* Math.max(...this.tasks.map(t => t.id))
RECURSIVE maxId(_)
maxId(arr) ==
    IF Len(arr) = 1 THEN arr[1].id
    ELSE LET rest == maxId(Tail(arr)) IN IF arr[1].id > rest THEN arr[1].id ELSE rest

\* a new id that counts the tasks
newTaskIdByLength(arr) == Len(arr) + 1

newTaskId(arr) == IF Len(arr) > 0 THEN maxId(arr) + 1 ELSE 1

handleAddTugas(m, from, o, bonusStr, durationStr, description) ==
    IF ~checkAdmin(m, o) THEN refuse(m, from)
    ELSE LET bonus == parseInt(bonusStr)
             duration == parseInt(durationStr)
         IN  IF isNaN(bonus) \/ isNaN(duration) \/ description = "" \/ duration.val <= 0
             THEN reply(m, from, "penggunaanSalahAddTugas", 0)
             ELSE LET newId == newTaskId(m.tasks) IN
                  await([m EXCEPT !.tasks = Append(@, [id |-> newId,
                                                        bonus |-> bonus.val,
                                                        duration |-> duration.val,
                                                        description |-> description])],
                        "L455", from, o, newId)

handleListAllTasks(m, from, o) ==
    IF ~checkAdmin(m, o) THEN refuse(m, from)
    ELSE IF Len(m.tasks) = 0 THEN reply(m, from, "belumAdaTugas", 0)
    ELSE reply(m, from, "semuaTugas", 0)

\* this.tasks.findIndex(t => t.id === taskId), 0 when there is none
findIndex(arr, taskId) ==
    IF taskId.nan \/ ~\E i \in DOMAIN arr : arr[i].id = taskId.val THEN 0
    ELSE CHOOSE i \in DOMAIN arr :
            arr[i].id = taskId.val /\ \A j \in 1..(i - 1) : arr[j].id # taskId.val

\* arr.splice(i, 1)
splice(arr, i) == SubSeq(arr, 1, i - 1) \o SubSeq(arr, i + 1, Len(arr))

\* a /hapustugas that also drops the challenges pending for the task
handleDeleteTaskCascade(m, from, o, taskIdStr) ==
    IF ~checkAdmin(m, o) THEN refuse(m, from)
    ELSE LET taskId == parseInt(taskIdStr)
             taskIndex == findIndex(m.tasks, taskId)
         IN  IF taskIndex > 0
             THEN await([m EXCEPT !.tasks = splice(@, taskIndex),
                                  !.heap = [x \in ObjIds |->
                                               IF /\ m.heap[x] # NoObj
                                                  /\ m.heap[x].captchaState.isWaiting
                                                  /\ m.heap[x].captchaState.type = "task"
                                                  /\ m.heap[x].captchaState.task.id = taskId.val
                                               THEN [m.heap[x] EXCEPT !.captchaState = NotWaiting]
                                               ELSE m.heap[x]]],
                        "L478", from, o, taskId.val)
             ELSE reply(m, from, "tugasTidakDitemukan", 0)

handleDeleteTask(m, from, o, taskIdStr) ==
    IF ~checkAdmin(m, o) THEN refuse(m, from)
    ELSE LET taskId == parseInt(taskIdStr)
             taskIndex == findIndex(m.tasks, taskId)
         IN  IF taskIndex > 0
             THEN await([m EXCEPT !.tasks = splice(@, taskIndex)], "L478", from, o, taskId.val)
             ELSE reply(m, from, "tugasTidakDitemukan", 0)

\* a /setbonus that does not compare min with max
handleSetBonusUnordered(m, from, o, minStr, maxStr) ==
    IF ~checkAdmin(m, o) THEN refuse(m, from)
    ELSE LET min == parseInt(minStr)
             max == parseInt(maxStr)
         IN  IF isNaN(min) \/ isNaN(max)
             THEN reply(m, from, "penggunaanSalahSetBonus", 0)
             ELSE await([m EXCEPT !.config.dailyBonus = [min |-> min.val, max |-> max.val]],
                        "L494", from, o, 0)

handleSetBonus(m, from, o, minStr, maxStr) ==
    IF ~checkAdmin(m, o) THEN refuse(m, from)
    ELSE LET min == parseInt(minStr)
             max == parseInt(maxStr)
         IN  IF isNaN(min) \/ isNaN(max) \/ min.val > max.val
             THEN reply(m, from, "penggunaanSalahSetBonus", 0)
             ELSE await([m EXCEPT !.config.dailyBonus = [min |-> min.val, max |-> max.val]],
                        "L494", from, o, 0)

handleListAvailableTasks(m, from, o) ==
    IF \A i \in DOMAIN m.tasks : includes(m.heap[o].completedTasksToday, m.tasks[i].id)
    THEN reply(m, from, "tidakAdaTugas", 0)
    ELSE reply(m, from, "tugasTersedia", 0)

handleImageGeneration(m, from, o, prompt) ==
    IF prompt = "" THEN reply(m, from, "penggunaanGambar", 0)
    ELSE await(reply(m, from, "membuatGambar", 0), "L507", from, o, 0)

handleVideoGeneration(m, from, o, prompt) ==
    IF prompt = "" THEN reply(m, from, "penggunaanVideo", 0)
    ELSE await(reply(m, from, "membuatVideo", 0), "L528", from, o, 0)

----------------------------------------------------------------------------
(* handleMessage, after the user object is known *)

getAiResponse(m, from, o) == await(m, "L557", from, o, 0)

\* the switch on commandName
dispatch(m, from, o, body, r) ==
    LET command == commandOf[body]
        args == argsOf[body]
        commandName == commandNameOf[body]
    IN  IF ~startsWith(command, "/") THEN getAiResponse(m, from, o)
        ELSE CASE commandName = "/menu" -> showMenu(m, from, o)
               [] commandName = "/saldo" -> reply(m, from, "saldo", m.heap[o].balance)
               [] commandName = "/owner" -> reply(m, from, "owner", 0)
               [] commandName = "/klaim" -> handleClaim(m, from, o, r)
               [] commandName = "/tugas" -> handleListAvailableTasks(m, from, o)
               [] commandName = "/selesai" -> handleSelesai(m, from, o, at(args, 1), r)
               [] commandName = "/gambar" -> handleImageGeneration(m, from, o, join(args))
               [] commandName = "/video" -> handleVideoGeneration(m, from, o, join(args))
               [] commandName = "/game" -> startGame(m, from, o, r)
               [] commandName = "/loginadmin" -> handleLoginAdmin(m, from, o, at(args, 1))
               [] commandName = "/clear" -> reply(m, from, "riwayatDihapus", 0)
               [] commandName = "/listusers" -> handleListUsers(m, from, o)
               [] commandName = "/blockuser" -> handleBlockUser(m, from, o, at(args, 1))
               [] commandName = "/unblockuser" -> handleUnblockUser(m, from, o, at(args, 1))
               [] commandName = "/deleteuser" -> handleDeleteUser(m, from, o, at(args, 1))
               [] commandName = "/addtugas" ->
                      handleAddTugas(m, from, o, at(args, 1), at(args, 2), join(slice(args, 2)))
               [] commandName = "/listtugas" -> handleListAllTasks(m, from, o)
               [] commandName = "/hapustugas" -> handleDeleteTask(m, from, o, at(args, 1))
               [] commandName = "/setbonus" -> handleSetBonus(m, from, o, at(args, 1), at(args, 2))
               [] OTHER -> await(m, "L206", from, o, 0)

\* a handleMessage that resolves a pending challenge before the daily reset
processVerifiesFirst(m, from, o, body, r) ==
    IF m.heap[o].isBlocked THEN m
    ELSE IF m.heap[o].captchaState.isWaiting THEN verifyCaptcha(m, from, o, body, r)
    ELSE LET m1 == [m EXCEPT !.heap[o] = dailyReset(@, today)] IN
         IF m1.heap[o].inGame THEN handleGameInput(m1, from, o, body)
         ELSE dispatch(m1, from, o, body, r)

\* a handleMessage that resets the daily fields before it tests isBlocked
processResetsFirst(m, from, o, body, r) ==
    LET m1 == [m EXCEPT !.heap[o] = dailyReset(@, today)] IN
    IF m1.heap[o].isBlocked THEN m1
    ELSE IF m1.heap[o].captchaState.isWaiting THEN verifyCaptcha(m1, from, o, body, r)
    ELSE IF m1.heap[o].inGame THEN handleGameInput(m1, from, o, body)
    ELSE dispatch(m1, from, o, body, r)

\* a handleMessage that dispatches a command before it looks at the mode
processCommandsFirst(m, from, o, body, r) ==
    IF m.heap[o].isBlocked THEN m
    ELSE LET m1 == [m EXCEPT !.heap[o] = dailyReset(@, today)] IN
         IF startsWith(commandOf[body], "/") THEN dispatch(m1, from, o, body, r)
         ELSE IF m1.heap[o].captchaState.isWaiting THEN verifyCaptcha(m1, from, o, body, r)
         ELSE IF m1.heap[o].inGame THEN handleGameInput(m1, from, o, body)
         ELSE dispatch(m1, from, o, body, r)

\* handleMessage from `if (user.isBlocked) return;` on, for the user object o
process(m, from, o, body, r) ==
    IF m.heap[o].isBlocked THEN m
    ELSE LET m1 == [m EXCEPT !.heap[o] = dailyReset(@, today)] IN
         IF m1.heap[o].captchaState.isWaiting THEN verifyCaptcha(m1, from, o, body, r)
         ELSE IF m1.heap[o].inGame THEN handleGameInput(m1, from, o, body)
         ELSE dispatch(m1, from, o, body, r)

freeObjs(m) == {o \in ObjIds : m.heap[o] = NoObj}

\* a handler parked at an await keeps its `message` in its closure
withMessage(m, body) ==
    IF m.park = NoHandler THEN m ELSE [m EXCEPT !.park.body = body]

\* handleMessage up to its first await
handleMessage(m, from, body, r) ==
    withMessage(
        IF m.users[from] = 0
        THEN LET o == CHOOSE x \in freeObjs(m) : \A y \in freeObjs(m) : x <= y IN
             await([m EXCEPT !.heap[o] = NewUser(today), !.users[from] = o],
                   "L143", from, o, 0)
        ELSE process(m, from, m.users[from], body, r),
        body)

\* a parked handler h from its await to the next one, or to its return
continue(m, h, r, fail) ==
    LET from == h.from
        o == h.user
    IN  withMessage(
        CASE h.pc = "L143" -> process(reply(m, from, "selamatDatang", 0), from, o, h.body, r)
          [] h.pc = "L248" -> reply(m, from, "gameMulai", 0)
          [] h.pc = "L255" -> showMenu(reply(m, from, "keluarGame", 0), from, o)
          [] h.pc = "L271" -> showMenu(reply(m, from, "selamatGame", m.heap[o].balance), from, o)
          [] h.pc = "L291" -> reply(m, from, "captchaKlaim", 0)
          [] h.pc = "L343" -> reply(m, from, "captchaTugas", 0)
          [] h.pc = "L363" ->
                 await(reply(m, from, "selamatTugas", m.heap[o].balance), "L376", from, o, 0)
          [] h.pc = "L370" ->
                 await(reply(m, from, "selamatBonus", m.heap[o].balance), "L376", from, o, 0)
          [] h.pc = "L376" -> showMenu(m, from, o)
          [] h.pc = "L414" -> reply(m, from, "diblokir", 0)
          [] h.pc = "L426" -> reply(m, from, "blokirDibuka", 0)
          [] h.pc = "L438" -> reply(m, from, "dihapus", 0)
          [] h.pc = "L455" -> reply(m, from, "tugasDitambahkan", h.num)
          [] h.pc = "L478" -> reply(m, from, "tugasDihapus", h.num)
          [] h.pc = "L494" -> reply(m, from, "bonusDiatur", 0)
          [] h.pc = "L557" -> reply(m, from, IF fail THEN "aiGagal" ELSE "ai", 0)
          [] h.pc = "L206" -> IF fail THEN m ELSE reply(m, from, "perintahTidakAda", 0)
          [] h.pc = "L507" -> reply(m, from, IF fail THEN "gambarGagal" ELSE "gambar", 0)
          [] h.pc = "L528" -> reply(m, from, IF fail THEN "videoGagal" ELSE "video", 0),
        h.body)

\* a callback that only lowers the flag and keeps the payload
timeoutFlagOnly(m, t) ==
    LET cur == m.users[t.from] IN
    IF /\ cur # 0
       /\ m.heap[cur].captchaState.isWaiting
       /\ m.heap[cur].captchaState.type = "task"
       /\ m.heap[cur].captchaState.task.id = t.taskId
    THEN reply([m EXCEPT !.heap[cur].captchaState.isWaiting = FALSE], t.from, "waktuHabis", 0)
    ELSE m

\* a callback that announces the expiry and leaves the challenge pending
timeoutNoClear(m, t) ==
    LET cur == m.users[t.from] IN
    IF /\ cur # 0
       /\ m.heap[cur].captchaState.isWaiting
       /\ m.heap[cur].captchaState.type = "task"
       /\ m.heap[cur].captchaState.task.id = t.taskId
    THEN reply(m, t.from, "waktuHabis", 0)
    ELSE m

\* a callback that does nothing
timeoutNever(m, t) == m

\* the setTimeout callback of handleSelesai
timeout(m, t) ==
    LET cur == m.users[t.from] IN
    IF /\ cur # 0
       /\ m.heap[cur].captchaState.isWaiting
       /\ m.heap[cur].captchaState.type = "task"
       /\ m.heap[cur].captchaState.task.id = t.taskId
    THEN reply(writeUsers([m EXCEPT !.heap[cur].captchaState = NotWaiting]),
               t.from, "waktuHabis", 0)
    ELSE m

----------------------------------------------------------------------------
(* The state machine *)

machine ==
    [ users |-> users, heap |-> heap, tasks |-> tasks, config |-> config,
      timers |-> timers, out |-> <<>>, park |-> NoHandler, disk |-> disk, writes |-> writes ]

\* the objects the map or a parked handler still refers to; the others are
\* garbage
liveObjs(us, hs) ==
    {us[u] : u \in UserIds} \cup {hs[i].user : i \in {j \in DOMAIN hs : hs[j] # NoHandler}}

commit(m, i) ==
    LET hs == [inflight EXCEPT ![i] = m.park] IN
    /\ users' = m.users
    /\ heap' = [o \in ObjIds |-> IF o \in liveObjs(m.users, hs) THEN m.heap[o] ELSE NoObj]
    /\ tasks' = m.tasks
    /\ config' = m.config
    /\ timers' = m.timers
    /\ out' = m.out
    /\ inflight' = hs
    /\ disk' = m.disk
    /\ writes' = m.writes

Init ==
    /\ users = [u \in UserIds |-> 0]
    /\ heap = [o \in ObjIds |-> NoObj]
    /\ tasks = <<>>
    /\ config = DefaultConfig
    /\ today = 0
    /\ timers = {}
    /\ inflight = [i \in 1..MaxInFlight |-> NoHandler]
    /\ out = <<>>
    /\ received = 0
    /\ disk = NoStore
    /\ writes = {}

\* the 'message' event: handleMessage runs to its first await
Receive(from, body, r) ==
    /\ received < MaxMessages
    /\ received' = received + 1
    /\ \E i \in DOMAIN inflight : inflight[i] = NoHandler
    /\ LET i == CHOOSE j \in DOMAIN inflight :
                   inflight[j] = NoHandler /\ \A k \in 1..(j - 1) : inflight[k] # NoHandler
       IN  commit(handleMessage(machine, from, body, r), i)
    /\ UNCHANGED today

\* the awaited promise of a parked handler settles
Resume(i, r, fail) ==
    /\ inflight[i] # NoHandler
    /\ commit(continue(writeFile(machine, inflight[i].write), inflight[i], r, fail), i)
    /\ UNCHANGED <<today, received>>

\* a deadline passes
TimerFire(t) ==
    /\ t \in timers
    /\ LET m == timeout([machine EXCEPT !.timers = @ \ {t}], t) IN
       /\ users' = m.users
       /\ heap' = m.heap
       /\ timers' = m.timers
       /\ out' = m.out
       /\ writes' = m.writes
    /\ UNCHANGED <<tasks, config, today, inflight, received, disk>>

\* a write nobody awaits completes
WriteDone(w) ==
    /\ w \in writes
    /\ disk' = writeFile(machine, w).disk
    /\ writes' = writes \ {w}
    /\ out' = <<>>
    /\ UNCHANGED <<users, heap, tasks, config, today, timers, inflight, received>>

\* midnight
NextDay ==
    /\ today < MaxDay
    /\ today' = today + 1
    /\ out' = <<>>
    /\ UNCHANGED <<users, heap, tasks, config, timers, inflight, received, disk, writes>>

\* the steps of the bot when each sender's messages are drawn from bodies[from]
\* and Math.random() from draws
\* the events of handleMessage calls: a message arrives, an await settles
Messages(bodies, draws) ==
    \/ \E from \in UserIds : \E body \in bodies[from], r \in draws :
           Receive(from, body, r)
    \/ \E i \in 1..MaxInFlight, r \in draws, fail \in BOOLEAN : Resume(i, r, fail)

Timeouts == \E t \in timers : TimerFire(t)

Admin == "2@c.us"

\* the task flow, with the other two modes and an admin who fills the catalog
TaskBodies ==
    [from \in UserIds |->
        IF from = Admin
        THEN {"/loginadmin admin123", "/addtugas 150 5 Jawab pertanyaan AI",
              "/addtugas -100 5 x", "/deleteuser 1"}
        ELSE {"/selesai 1", " i ", "salah", "/klaim", "/game"}]

Half == {<<1, 2>>}

Next == Messages(TaskBodies, Half) \/ Timeouts

Spec == Init /\ [][Next]_vars

\* the daily bonus over a change of date
DailyBodies ==
    [from \in UserIds |->
        IF from = Admin
        THEN {"/loginadmin admin123", "/setbonus 10 20", "/addtugas 150 5 Jawab pertanyaan AI",
              "/blockuser 1"}
        ELSE {"/klaim", " i ", "salah", "/selesai 1"}]

NextDaily == Messages(DailyBodies, Half) \/ Timeouts \/ NextDay

SpecDaily == Init /\ [][NextDaily]_vars

\* the guessing game, two players
GameBodies == [from \in UserIds |-> {"/game", "51", "7", " 51abc", "100", "halo", "/exitgame"}]

NextGame == Messages(GameBodies, Half)

SpecGame == Init /\ [][NextGame]_vars

\* the admin gate: one sender who never learns the password and one who
\* logs in, manages the users and sets the bonus range
GateBodies ==
    [from \in UserIds |->
        IF from = Admin
        THEN {"/loginadmin admin123", "/loginadmin ADMIN123", "/addtugas 150 5 Jawab pertanyaan AI",
              "/blockuser 1", "/deleteuser 2", "/setbonus 10 20", "/setbonus 500 100",
              "/setbonus x 5", "/setbonus 100"}
        ELSE {"/listusers", "/blockuser 2@c.us", "/unblockuser 1@c.us", "/deleteuser 2",
              "/addtugas 150 5 Jawab pertanyaan AI", "/listtugas", "/hapustugas 1",
              "/setbonus 10 20", "/loginadmin ADMIN123", "/loginadmin"}]

NextGate == Messages(GateBodies, Half)

SpecGate == Init /\ [][NextGate]_vars

\* the catalog: an admin who adds and deletes tasks, and a user who
\* completes the first one
CatalogBodies ==
    [from \in UserIds |->
        IF from = Admin
        THEN {"/loginadmin admin123", "/addtugas 150 5 Jawab pertanyaan AI", "/addtugas 150 5",
              "/addtugas x 5 y", "/addtugas 150 y z", "/addtugas 150 0 x", "/addtugas 150 -5 x",
              "/hapustugas 1", "/hapustugas 2", "/hapustugas 9"}
        ELSE {"/selesai 1", " i ", "/addtugas 150 5 Jawab pertanyaan AI"}]

NextCatalog == Messages(CatalogBodies, Half) \/ Timeouts

SpecCatalog == Init /\ [][NextCatalog]_vars

\* the same start with the three files observed
InitStore ==
    /\ users = [u \in UserIds |-> 0]
    /\ heap = [o \in ObjIds |-> NoObj]
    /\ tasks = <<>>
    /\ config = DefaultConfig
    /\ today = 0
    /\ timers = {}
    /\ inflight = [i \in 1..MaxInFlight |-> NoHandler]
    /\ out = <<>>
    /\ received = 0
    /\ disk = EmptyStore
    /\ writes = {}

WritesDone == \E w \in writes : WriteDone(w)

\* the credits and the store: a player who also claims the daily bonus, and
\* a sender who logs in as admin
StoreBodies ==
    [from \in UserIds |->
        IF from = Admin
        THEN {"/loginadmin admin123"}
        ELSE {"/game", "51", "/klaim", " i "}]

NextStore == Messages(StoreBodies, Half) \/ WritesDone

SpecStore == InitStore /\ [][NextStore]_vars

\* the flushes: the menu, a task and its deadline, and a login, over a
\* change of date
FlushBodies ==
    [from \in UserIds |->
        IF from = Admin
        THEN {"/loginadmin admin123", "/addtugas 150 5 Jawab pertanyaan AI"}
        ELSE {"/menu", "/selesai 1"}]

NextFlush == Messages(FlushBodies, Half) \/ Timeouts \/ WritesDone \/ NextDay

SpecFlush == InitStore /\ [][NextFlush]_vars

\* the three modes of one user: a task challenge with its deadline, and the
\* game, with commands arriving in every mode
ModeBodies ==
    [from \in UserIds |->
        IF from = Admin
        THEN {"/loginadmin admin123", "/addtugas 150 5 Jawab pertanyaan AI"}
        ELSE {"/selesai 1", "/klaim", " i ", "/game", "51", "/exitgame"}]

NextModes == Messages(ModeBodies, Half) \/ Timeouts

SpecModes == Init /\ [][NextModes]_vars

\* the requests for a task challenge: an id that is no number, no id, an
\* id without a task, a task done today
SelesaiBodies ==
    [from \in UserIds |->
        IF from = Admin
        THEN {"/loginadmin admin123", "/addtugas 150 5 Jawab pertanyaan AI"}
        ELSE {"/selesai 1", "/selesai 2", "/selesai", "/selesai x", " i "}]

NextSelesai == Messages(SelesaiBodies, Half) \/ Timeouts

SpecSelesai == Init /\ [][NextSelesai]_vars

\* every timer setTimeout can have scheduled for task 1, the task the
\* /selesai commands of ExpiryBodies name
AllTimers == [id : TimerIds, from : UserIds, taskId : {1}]

\* the deadlines: a user who asks for a task and answers wrongly or not at
\* all, and an admin who deletes the user; a scheduled, uncancelled timer
\* eventually fires
ExpiryBodies ==
    [from \in UserIds |->
        IF from = Admin
        THEN {"/loginadmin admin123", "/addtugas 150 5 Jawab pertanyaan AI", "/deleteuser 1"}
        ELSE {"/selesai 1", "salah"}]

NextExpiry == Messages(ExpiryBodies, Half) \/ Timeouts

SpecExpiry == Init /\ [][NextExpiry]_vars /\ \A t \in AllTimers : WF_vars(TimerFire(t))

\* JSON.parse of users.json gives every key a record of its own: the record
\* of the first sender is object 1, the record of the second object 2
loadedObj(u) == IF u = "1@c.us" THEN 1 ELSE 2

\* the process stops and starts again: the handlers parked at an await, the
\* writes in progress and the scheduled callbacks are gone with the old
\* process, and loadData fills users, tasks and config from the three files
Restart ==
    /\ disk.observed
    /\ users' = [u \in UserIds |-> IF disk.users[u] = NoObj THEN 0 ELSE loadedObj(u)]
    /\ heap' = [o \in ObjIds |->
                   IF \E u \in UserIds : loadedObj(u) = o /\ disk.users[u] # NoObj
                   THEN disk.users[CHOOSE u \in UserIds : loadedObj(u) = o]
                   ELSE NoObj]
    /\ tasks' = disk.tasks
    /\ config' = disk.config
    /\ timers' = {}
    /\ inflight' = [i \in 1..MaxInFlight |-> NoHandler]
    /\ writes' = {}
    /\ out' = <<>>
    /\ UNCHANGED <<today, received, disk>>

\* a task challenge, its answer and its deadline in a process that can be
\* restarted
RestartBodies ==
    [from \in UserIds |->
        IF from = Admin
        THEN {"/loginadmin admin123", "/addtugas 150 5 Jawab pertanyaan AI"}
        ELSE {"/selesai 1", " i "}]

NextRestart == Messages(RestartBodies, Half) \/ Timeouts \/ WritesDone \/ Restart

SpecRestart == InitStore /\ [][NextRestart]_vars

\* the number game with every target Math.random() is drawn for: guesses
\* below, at and above the targets 1, 51 and 100
TargetBodies == [from \in UserIds |-> {"/game", "51", "100", "/exitgame"}]

NextTarget == Messages(TargetBodies, RandomDraws)

SpecTarget == Init /\ [][NextTarget]_vars

\* two senders and each other's records: an admin who blocks, unblocks and
\* deletes the other sender, adds a task and sets the bonus range, and a
\* sender without the password who plays, claims and tries the same commands
FrameBodies ==
    [from \in UserIds |->
        IF from = Admin
        THEN {"/loginadmin admin123", "/blockuser 1", "/unblockuser 1@c.us", "/deleteuser 1",
              "/addtugas 150 5 Jawab pertanyaan AI", "/setbonus 10 20"}
        ELSE {"/klaim", " i ", "/game", "/blockuser 2@c.us", "/deleteuser 2",
              "/hapustugas 1", "/setbonus 10 20"}]

NextFrame == Messages(FrameBodies, Half)

SpecFrame == Init /\ [][NextFrame]_vars

\* the catalog of a bot that was given one task in an earlier run
LoadedTasks ==
    <<[id |-> 1, bonus |-> 150, duration |-> 5, description |-> "Jawab pertanyaan AI"]>>

\* the state after loadData has read a tasks.json that holds that task, no
\* users.json and no config.json
InitLoaded ==
    /\ users = [u \in UserIds |-> 0]
    /\ heap = [o \in ObjIds |-> NoObj]
    /\ tasks = LoadedTasks
    /\ config = DefaultConfig
    /\ today = 0
    /\ timers = {}
    /\ inflight = [i \in 1..MaxInFlight |-> NoHandler]
    /\ out = <<>>
    /\ received = 0
    /\ disk = [EmptyStore EXCEPT !.tasks = LoadedTasks]
    /\ writes = {}

\* one sender's task challenge and claim challenge answered after a change
\* of date, with the files observed
RolloverBodies ==
    [from \in UserIds |->
        IF from = Admin THEN {} ELSE {"/selesai 1", "/klaim", " i "}]

NextRollover == Messages(RolloverBodies, Half) \/ Timeouts \/ WritesDone \/ NextDay

SpecRollover == InitLoaded /\ [][NextRollover]_vars

----------------------------------------------------------------------------
(* Vocabulary of the properties *)

\* the messages the specifications deliver
Heard == [from \in UserIds |-> TaskBodies[from] \cup DailyBodies[from] \cup GameBodies[from]]

Alive(o) == heap[o] # NoObj

Pending(o) == Alive(o) /\ heap[o].captchaState.isWaiting

PendingTask(o) == Pending(o) /\ heap[o].captchaState.type = "task"

PendingClaim(o) == Pending(o) /\ heap[o].captchaState.type = "claim"

\* this step is a call of handleMessage for message (from, body) that gets
\* past the registration of the sender and handles the message on object o
Processes(o, from, body) ==
    /\ \A k \in DOMAIN out' : out'[k].to = from
    /\ \A i \in 1..MaxInFlight :
          (inflight'[i] # inflight[i] /\ inflight'[i] # NoHandler) =>
              (inflight'[i].from = from /\ inflight'[i].body = body)
    /\ \/ /\ received' = received + 1
          /\ users[from] = o
          /\ \E r \in Half : Receive(from, body, r)
       \/ /\ received' = received
          /\ \E i \in 1..MaxInFlight :
                /\ inflight[i] # NoHandler
                /\ inflight[i].pc = "L143"
                /\ inflight[i].user = o
                /\ inflight[i].from = from
                /\ inflight[i].body = body
                /\ \E r \in Half, fail \in BOOLEAN : Resume(i, r, fail)

\* what every step that handles a message on object o shows, whatever the
\* message is
MayProcess(o) ==
    \/ received' = received + 1 /\ \E from \in UserIds : users[from] = o
    \/ /\ received' = received
       /\ \E i \in 1..MaxInFlight :
             /\ inflight[i] # NoHandler
             /\ inflight[i].pc = "L143"
             /\ inflight[i].user = o
             /\ inflight'[i] # inflight[i]

\* this step sends `to` a reply of one of the kinds msgs
Replies(to, msgs) == \E k \in DOMAIN out' : out'[k].to = to /\ out'[k].msg \in msgs

\* the texts a challenge can ask for, in lower case
Tokens == {generateCaptcha(r) : r \in RandomDraws}

lowerOf == [answer \in Tokens |-> toLowerCase(answer)]

TokenTexts == {lowerOf[answer] : answer \in Tokens}

\* the messages that are the token `answer` up to surrounding blanks and the
\* case of letters
TokenBodies == [answer \in Tokens |-> {body \in Bodies : commandOf[body] = lowerOf[answer]}]

AnyTokenBodies == {body \in Bodies : commandOf[body] \in TokenTexts}

\* completedTasksToday as the daily reset leaves it
AfterReset(u) == IF u.lastLogin # today THEN <<>> ELSE u.completedTasksToday

NoDuplicates(arr) == \A i, j \in DOMAIN arr : arr[i] = arr[j] => i = j

----------------------------------------------------------------------------
\* C1: no user record is ever awaiting a verification and in a game at the
\* same time, and its captchaState carries the challenge payload (type and
\* answer, and for a task challenge the task and the timer id) exactly when
\* isWaiting is true; this holds in every state any interleaving of
\* overlapping handleMessage calls and timer callbacks reaches.
ModesExclusive ==
    \A o \in ObjIds :
        Alive(o) =>
            LET u == heap[o]
                cs == u.captchaState
            IN  /\ ~(cs.isWaiting /\ u.inGame)
                /\ IF cs.isWaiting
                   THEN /\ "type" \in DOMAIN cs
                        /\ \/ cs.type = "claim" /\ DOMAIN cs = {"isWaiting", "type", "answer"}
                           \/ /\ cs.type = "task"
                              /\ DOMAIN cs = {"isWaiting", "type", "task", "answer", "timerId"}
                   ELSE DOMAIN cs = {"isWaiting"}

\* a user has a task challenge pending while the handler of their first
\* message is still parked at the registration write
ModesOverlap ==
    \E o \in ObjIds, i \in 1..MaxInFlight :
        /\ PendingTask(o)
        /\ inflight[i] # NoHandler
        /\ inflight[i].pc = "L143"
        /\ inflight[i].user = o

\* C2: a task challenge is resolved by verifyCaptcha or by the deadline
\* callback, never by both: a message handled while the challenge is pending
\* clears it and cancels its timer, so the callback cannot run for it; a
\* callback that takes effect clears it, so no later message is verified
\* against it; verification replies are only sent for a challenge that was
\* pending; and a callback that finds no pending challenge changes nothing.
ResolvedOnce ==
    [][ /\ \A o \in ObjIds :
              (PendingTask(o) /\ ~heap[o].isBlocked /\ MayProcess(o)) =>
              \A from \in UserIds : \A body \in Heard[from] :
              Processes(o, from, body) =>
                  /\ Replies(from, {"captchaBenar", "captchaSalah"})
                  /\ ~Replies(from, {"waktuHabis"})
                  /\ heap'[o].captchaState = NotWaiting
                  /\ \A t \in timers' : t.id # heap[o].captchaState.timerId
        /\ \A from \in UserIds :
              Replies(from, {"captchaBenar", "captchaSalah"}) =>
                  \E o \in ObjIds : Pending(o) /\ heap'[o].captchaState = NotWaiting
        /\ \A t \in timers :
              TimerFire(t) =>
                  IF users[t.from] # 0 /\ PendingTask(users[t.from])
                     /\ heap[users[t.from]].captchaState.task.id = t.taskId
                  THEN /\ heap'[users[t.from]].captchaState = NotWaiting
                       /\ out' = <<[to |-> t.from, msg |-> "waktuHabis", val |-> 0]>>
                  ELSE /\ UNCHANGED <<users, heap>>
                       /\ out' = <<>>
      ]_vars

\* a task challenge has been answered: the handler waits for the write of the
\* credit, the challenge is cleared and no timer is left to fire for it
AnsweredTimerGone ==
    \E i \in 1..MaxInFlight :
        /\ inflight[i] # NoHandler
        /\ inflight[i].pc = "L363"
        /\ ~Pending(inflight[i].user)
        /\ timers = {}

\* C3: a message that is the token of a pending task challenge, handled
\* before the deadline, adds exactly the reward of the challenge's task to the
\* balance, appends the task id to completedTasksToday, cancels the timer and
\* clears the challenge; while the handler of that message waits for its
\* store write and no new challenge has been started, the same message
\* delivered again changes neither balance nor completedTasksToday; and
\* completedTasksToday never holds an id twice.
TaskCreditedOnce ==
    [][ /\ \A o \in ObjIds :
              (PendingTask(o) /\ ~heap[o].isBlocked /\ MayProcess(o)) =>
              \A from \in UserIds, body \in TokenBodies[heap[o].captchaState.answer] :
              Processes(o, from, body) =>
                  /\ heap'[o].balance = heap[o].balance + heap[o].captchaState.task.bonus
                  /\ heap'[o].completedTasksToday =
                         Append(AfterReset(heap[o]), heap[o].captchaState.task.id)
                  /\ \A t \in timers' : t.id # heap[o].captchaState.timerId
                  /\ heap'[o].captchaState = NotWaiting
        /\ \A i \in 1..MaxInFlight :
              (inflight[i] # NoHandler /\ inflight[i].pc = "L363"
               /\ ~Pending(inflight[i].user)
               /\ MayProcess(inflight[i].user)
               /\ Processes(inflight[i].user, inflight[i].from, inflight[i].body)) =>
                  /\ heap'[inflight[i].user].balance = heap[inflight[i].user].balance
                  /\ heap'[inflight[i].user].completedTasksToday =
                         AfterReset(heap[inflight[i].user])
        /\ \A o \in ObjIds : Alive(o)' => NoDuplicates(heap'[o].completedTasksToday)
      ]_vars

\* the token of a task challenge was sent with blanks around it and in lower
\* case, the reward is credited, and the same message has arrived a second
\* time while the first handler waits for its write
TaskAnsweredTwice ==
    \E i, j \in 1..MaxInFlight :
        /\ inflight[i] # NoHandler /\ inflight[i].pc = "L363"
        /\ inflight[j] # NoHandler /\ inflight[j].pc = "L557"
        /\ inflight[j].user = inflight[i].user
        /\ inflight[j].body = inflight[i].body
        /\ inflight[i].body = " i "
        /\ heap[inflight[i].user].balance = 150
        /\ heap[inflight[i].user].completedTasksToday = <<1>>

\* C4: when the timer of a pending task challenge fires, the challenge is
\* cleared and the user is idle, with balance and completedTasksToday as they
\* were; and a message that is a challenge token, handled for a user with no
\* pending challenge, never changes balance or completedTasksToday.
ExpiryCreditsNothing ==
    [][ /\ \A t \in timers, o \in ObjIds :
              ( /\ users[t.from] = o
                /\ PendingTask(o)
                /\ heap[o].captchaState.timerId = t.id
                /\ TimerFire(t) ) =>
                  /\ heap'[o].captchaState = NotWaiting
                  /\ ~heap'[o].inGame
                  /\ heap'[o].balance = heap[o].balance
                  /\ heap'[o].completedTasksToday = heap[o].completedTasksToday
        /\ \A o \in ObjIds :
              (Alive(o) /\ ~Pending(o) /\ MayProcess(o) /\ Alive(o)') =>
              \A from \in UserIds, body \in AnyTokenBodies :
              Processes(o, from, body) =>
                  /\ heap'[o].balance = heap[o].balance
                  /\ heap'[o].completedTasksToday = AfterReset(heap[o])
      ]_vars

\* the deadline of a challenge has just passed unanswered: the user is told,
\* is idle again and has earned nothing
ExpiredUnanswered ==
    \E u \in UserIds :
        /\ out = <<[to |-> u, msg |-> "waktuHabis", val |-> 0]>>
        /\ users[u] # 0
        /\ heap[users[u]].captchaState = NotWaiting
        /\ ~heap[users[u]].inGame
        /\ heap[users[u]].balance = 0
        /\ heap[users[u]].completedTasksToday = <<>>

\* the messages whose command name is /klaim
KlaimBodies == {body \in Bodies : commandNameOf[body] = "/klaim"}

Idle(o) == Alive(o) /\ ~heap[o].captchaState.isWaiting /\ ~heap[o].inGame

\* C5: between two changes of date the daily bonus is credited at most once:
\* a /klaim command dispatched for a user (idle, not blocked) whose
\* claimedDailyBonus is true and whose lastLogin is today is answered with
\* the already-claimed message and leaves the whole user record (balance,
\* mode, captchaState, claimedDailyBonus) unchanged; and a step that credits
\* the bonus of a claim challenge starts from a record not yet claimed today.
ClaimedOncePerDay ==
    [][ /\ \A o \in ObjIds :
              ( /\ Idle(o)
                /\ ~heap[o].isBlocked
                /\ heap[o].claimedDailyBonus
                /\ heap[o].lastLogin = today
                /\ MayProcess(o) ) =>
              \A from \in UserIds, body \in KlaimBodies :
              Processes(o, from, body) =>
                  /\ Replies(from, {"sudahKlaim"})
                  /\ \A k \in DOMAIN out' : out'[k].msg \in {"sudahKlaim", "selamatDatang"}
                  /\ Alive(o)' => heap'[o] = heap[o]
        /\ \A o \in ObjIds :
              (PendingClaim(o) /\ Alive(o)' /\ heap'[o].balance # heap[o].balance) =>
                  (~heap[o].claimedDailyBonus \/ heap[o].lastLogin # today)
      ]_vars

\* a user who has claimed today's bonus has just been told so on a second
\* /klaim
ClaimRefused ==
    \E u \in UserIds :
        /\ out = <<[to |-> u, msg |-> "sudahKlaim", val |-> 0]>>
        /\ users[u] # 0
        /\ heap[users[u]].claimedDailyBonus
        /\ heap[users[u]].lastLogin = today
        /\ heap[users[u]].balance > 0

\* C6: a message that is the token of a pending claim challenge, up to
\* surrounding blanks and the case of letters, adds to the balance an integer
\* within config.dailyBonus as it is when the message is handled, sets
\* claimedDailyBonus and leaves the user idle.
ClaimCredited ==
    [][ \A o \in ObjIds :
            (PendingClaim(o) /\ ~heap[o].isBlocked /\ MayProcess(o)) =>
            \A from \in UserIds, body \in TokenBodies[heap[o].captchaState.answer] :
            Processes(o, from, body) =>
                /\ heap'[o].balance - heap[o].balance
                       \in config.dailyBonus.min..config.dailyBonus.max
                /\ heap'[o].claimedDailyBonus
                /\ heap'[o].captchaState = NotWaiting
                /\ ~heap'[o].inGame
      ]_vars

\* the range was changed to 10..20 while a claim challenge was pending, and
\* the token sent in lower case with blanks around it was credited 15
ClaimAnsweredAfterSetBonus ==
    \E i \in 1..MaxInFlight :
        /\ inflight[i] # NoHandler
        /\ inflight[i].pc = "L370"
        /\ inflight[i].body = " i "
        /\ config.dailyBonus = [min |-> 10, max |-> 20]
        /\ heap[inflight[i].user].balance = 15
        /\ heap[inflight[i].user].claimedDailyBonus

\* C7: a message from a sender whose lastLogin is not today is handled on the
\* reset record: unless the sender is blocked, in which case the message is
\* dropped with no reply and no change, the record leaves the step with
\* lastLogin today, with claimedDailyBonus false unless this very message
\* answered a claim challenge, and with completedTasksToday empty but for the
\* task this very message completed; and the handlers saw the reset values:
\* no already-claimed and no already-completed refusal.
ResetBeforeHandling ==
    [][ \A o \in ObjIds :
            (Alive(o) /\ heap[o].lastLogin # today /\ MayProcess(o)) =>
            \A from \in UserIds : \A body \in Heard[from] :
            Processes(o, from, body) =>
                IF heap[o].isBlocked
                THEN /\ \A k \in DOMAIN out' : out'[k].msg = "selamatDatang"
                     /\ Alive(o)' => heap'[o] = heap[o]
                ELSE /\ ~Replies(from, {"sudahKlaim", "sudahSelesai"})
                     /\ Alive(o)' =>
                          /\ heap'[o].lastLogin = today
                          /\ heap'[o].claimedDailyBonus =
                                 (PendingClaim(o) /\ Replies(from, {"captchaBenar"}))
                          /\ heap'[o].completedTasksToday =
                                 IF PendingTask(o) /\ Replies(from, {"captchaBenar"})
                                 THEN <<heap[o].captchaState.task.id>>
                                 ELSE <<>>
      ]_vars

\* a user who completed task 1 yesterday has started it again today
RestartedAfterRollover ==
    \E o \in ObjIds :
        /\ PendingTask(o)
        /\ heap[o].captchaState.task.id = 1
        /\ heap[o].balance = 150
        /\ heap[o].completedTasksToday = <<>>
        /\ heap[o].lastLogin = 1
        /\ today = 1

\* C8: for a user in a game, a handled message that is /exitgame ends the
\* game with the balance unchanged, a message whose parseInt is gameAnswer
\* adds exactly 250 and ends the game, and any other message (too low, too
\* high, not a number) changes neither balance nor mode; nothing but a
\* handled message of the user changes the balance or the mode of a user in a
\* game; and the winning message delivered again while the handler of the
\* win waits for its write credits nothing.
GameRules ==
    [][ /\ \A o \in ObjIds :
              (Alive(o) /\ heap[o].inGame /\ Alive(o)') =>
                  /\ (~heap[o].isBlocked /\ MayProcess(o)) =>
                     \A from \in UserIds : \A body \in Heard[from] :
                     Processes(o, from, body) =>
                         IF commandOf[body] = "/exitgame"
                         THEN ~heap'[o].inGame /\ heap'[o].balance = heap[o].balance
                         ELSE IF /\ ~isNaN(parseIntOf[body])
                                 /\ parseIntOf[body].val = heap[o].gameAnswer
                         THEN /\ ~heap'[o].inGame
                              /\ heap'[o].balance = heap[o].balance + GameReward
                         ELSE heap'[o].inGame /\ heap'[o].balance = heap[o].balance
                  /\ (heap'[o].balance # heap[o].balance \/ ~heap'[o].inGame) =>
                         /\ ~heap[o].isBlocked
                         /\ \E from \in UserIds : \E body \in Heard[from] : Processes(o, from, body)
        /\ \A i \in 1..MaxInFlight :
              ( /\ inflight[i] # NoHandler
                /\ inflight[i].pc = "L271"
                /\ ~heap[inflight[i].user].inGame
                /\ MayProcess(inflight[i].user)
                /\ Processes(inflight[i].user, inflight[i].from, inflight[i].body) ) =>
                  /\ heap'[inflight[i].user].balance = heap[inflight[i].user].balance
                  /\ ~heap'[inflight[i].user].inGame
      ]_vars

\* the winning guess has arrived twice: the first handler waits for the write
\* of the win, the second is on its way to the AI, and the balance is 250
WonAndGuessedAgain ==
    \E i, j \in 1..MaxInFlight :
        /\ inflight[i] # NoHandler /\ inflight[i].pc = "L271"
        /\ inflight[j] # NoHandler /\ inflight[j].pc = "L557"
        /\ inflight[j].user = inflight[i].user
        /\ inflight[j].body = inflight[i].body
        /\ heap[inflight[i].user].balance = GameReward
        /\ ~heap[inflight[i].user].inGame

\* C9: every user's balance is an integer >= 0 in every reachable state, and
\* no step decreases it.
BalanceOnlyGrows ==
    [][ \A o \in ObjIds :
            Alive(o)' =>
                /\ heap'[o].balance \in Nat
                /\ Alive(o) => heap'[o].balance >= heap[o].balance
      ]_vars

\* the admin has added a task with reward -100, and a user who completed it
\* has a balance of -100
NegativeBalance ==
    \E o \in ObjIds :
        /\ Alive(o)
        /\ heap[o].balance = 0 - 100
        /\ heap[o].completedTasksToday = <<1>>

\* C10: every task of the catalog has a reward > 0 and a duration > 0.
CatalogPositive ==
    \A i \in DOMAIN tasks : tasks[i].bonus > 0 /\ tasks[i].duration > 0

\* the catalog holds a task with reward -100
NegativeReward ==
    \E i \in DOMAIN tasks : tasks[i].bonus = 0 - 100 /\ tasks[i].duration = 5

\* the admin gate's commands
AdminCommandNames ==
    {"/listusers", "/blockuser", "/unblockuser", "/deleteuser", "/addtugas", "/listtugas",
     "/hapustugas", "/setbonus"}

AdminCommandBodies == {body \in Bodies : commandNameOf[body] \in AdminCommandNames}

\* C11: when a user whose isAdmin is false sends an admin command
\* (/listusers, /blockuser, /unblockuser, /deleteuser, /addtugas, /listtugas,
\* /hapustugas, /setbonus), the command's only effect is the fixed refusal
\* reply: the step that dispatches it on the sender's record (idle, not
\* blocked) sends the refusal and nothing else after the welcome of a new
\* user, parks no handler, starts no timer, and leaves the users map, every
\* user record (the sender's as the daily reset leaves it), the task catalog
\* and the configuration unchanged.
GateRefuses ==
    [][ \A o \in ObjIds :
            (Idle(o) /\ ~heap[o].isBlocked /\ ~heap[o].isAdmin /\ MayProcess(o)) =>
                \A from \in UserIds : \A body \in GateBodies[from] \cap AdminCommandBodies :
                    Processes(o, from, body) =>
                        /\ out' \in {<<[to |-> from, msg |-> "hanyaAdmin", val |-> 0]>>,
                                     <<[to |-> from, msg |-> "selamatDatang", val |-> 0],
                                       [to |-> from, msg |-> "hanyaAdmin", val |-> 0]>>}
                        /\ users' = users
                        /\ tasks' = tasks
                        /\ config' = config
                        /\ timers' = timers
                        /\ \A x \in ObjIds \ {o} : heap'[x] = heap[x]
                        /\ Alive(o)' => heap'[o] = dailyReset(heap[o], today)
                        /\ \A i \in 1..MaxInFlight : inflight'[i] \in {inflight[i], NoHandler}
      ]_vars

\* a non-admin has just been refused while there was a task to delete, a
\* second user to block or delete and an admin whose bonus range differs
\* from the default one
GateRefused ==
    /\ out = <<[to |-> "1@c.us", msg |-> "hanyaAdmin", val |-> 0]>>
    /\ users["1@c.us"] # 0 /\ ~heap[users["1@c.us"]].isAdmin
    /\ users["2@c.us"] # 0 /\ heap[users["2@c.us"]].isAdmin
    /\ tasks # <<>>
    /\ config.dailyBonus = [min |-> 10, max |-> 20]

\* C12: a user record's isAdmin becomes true only in a step that handles, on
\* that record, a /loginadmin command whose argument equals
\* config.adminPassword (a new record starts with isAdmin false); once true
\* it stays true for as long as the record exists, and the record leaves the
\* users map only in a step that handles a /deleteuser command.
AdminOnlyByLogin ==
    [][ \A o \in ObjIds :
            /\ (Alive(o) /\ Alive(o)' /\ heap[o].isAdmin) => heap'[o].isAdmin
            /\ (~Alive(o) /\ Alive(o)') => ~heap'[o].isAdmin
            /\ (Alive(o) /\ Alive(o)' /\ ~heap[o].isAdmin /\ heap'[o].isAdmin) =>
                  \E from \in UserIds : \E body \in GateBodies[from] :
                      /\ commandNameOf[body] = "/loginadmin"
                      /\ at(argsOf[body], 1) = <<config.adminPassword>>
                      /\ Processes(o, from, body)
            /\ \A u \in UserIds :
                  (Alive(o) /\ heap[o].isAdmin /\ users[u] = o /\ users'[u] # o) =>
                      /\ users'[u] = 0
                      /\ \E from \in UserIds : \E body \in GateBodies[from] :
                            /\ commandNameOf[body] = "/deleteuser"
                            /\ \E x \in ObjIds : MayProcess(x) /\ Processes(x, from, body)
      ]_vars

\* the password has just been accepted from a sender whose earlier attempt
\* with the password in upper case was turned down
AdminLoggedIn ==
    /\ out = <<[to |-> Admin, msg |-> "loginAdminOk", val |-> 0]>>
    /\ users[Admin] # 0 /\ heap[users[Admin]].isAdmin
    /\ users["1@c.us"] # 0 /\ ~heap[users["1@c.us"]].isAdmin
    /\ received >= 4

\* C13: a /setbonus command whose min or max does not parse as a number, or
\* whose min is greater than its max, leaves config unchanged; hence
\* config.dailyBonus.min <= config.dailyBonus.max in every state reachable
\* from the default configuration.
BonusRangeOrdered ==
    [][ /\ config.dailyBonus.min <= config.dailyBonus.max
        /\ config'.dailyBonus.min <= config'.dailyBonus.max
        /\ \A o \in ObjIds :
              (Idle(o) /\ ~heap[o].isBlocked /\ MayProcess(o)) =>
                  \A from \in UserIds : \A body \in GateBodies[from] :
                      (commandNameOf[body] = "/setbonus" /\ Processes(o, from, body)) =>
                          LET min == parseInt(at(argsOf[body], 1))
                              max == parseInt(at(argsOf[body], 2))
                          IN  (isNaN(min) \/ isNaN(max) \/ min.val > max.val) =>
                                  /\ config' = config
                                  /\ Replies(from, {"hanyaAdmin", "penggunaanSalahSetBonus"})
      ]_vars

\* the admin has set the range 10..20 and has then been told how to use the
\* command
SetBonusRejected ==
    /\ out = <<[to |-> Admin, msg |-> "penggunaanSalahSetBonus", val |-> 0]>>
    /\ config.dailyBonus = [min |-> 10, max |-> 20]

\* C14: an /addtugas command handled for an admin leaves the catalog
\* unchanged when the reward or the duration does not parse as an integer,
\* the description is empty or the duration is <= 0; otherwise it appends
\* exactly one task, with the parsed reward and duration and the given
\* description, whose id is 1 if the catalog is empty and the greatest
\* existing id plus 1 otherwise.
AddTugasAppends ==
    [][ \A o \in ObjIds :
            (Idle(o) /\ ~heap[o].isBlocked /\ heap[o].isAdmin /\ MayProcess(o)) =>
                \A from \in UserIds : \A body \in CatalogBodies[from] :
                    (commandNameOf[body] = "/addtugas" /\ Processes(o, from, body)) =>
                        LET args == argsOf[body]
                            bonus == parseInt(at(args, 1))
                            duration == parseInt(at(args, 2))
                            description == join(slice(args, 2))
                            n == Len(tasks)
                        IN  IF isNaN(bonus) \/ isNaN(duration) \/ description = ""
                                            \/ duration.val <= 0
                            THEN tasks' = tasks
                            ELSE /\ Len(tasks') = n + 1
                                 /\ SubSeq(tasks', 1, n) = tasks
                                 /\ tasks'[n + 1].bonus = bonus.val
                                 /\ tasks'[n + 1].duration = duration.val
                                 /\ tasks'[n + 1].description = description
                                 /\ IF n = 0
                                    THEN tasks'[n + 1].id = 1
                                    ELSE /\ \A i \in 1..n : tasks'[n + 1].id > tasks[i].id
                                         /\ \E i \in 1..n : tasks'[n + 1].id = tasks[i].id + 1
      ]_vars

\* the catalog holds the tasks 2 and 3, the third one added after task 1 was
\* deleted, and an /addtugas command has just been rejected
AddTugasRejected ==
    /\ Len(tasks) = 2 /\ tasks[1].id = 2 /\ tasks[2].id = 3
    /\ out = <<[to |-> Admin, msg |-> "penggunaanSalahAddTugas", val |-> 0]>>

\* the task ids the state shows to have been assigned: those of the catalog,
\* those a parked /addtugas or /hapustugas handler is about to report, those
\* the users have completed today and those of the pending task challenges
KnownIds ==
    {tasks[i].id : i \in DOMAIN tasks}
    \cup {inflight[i].num : i \in {j \in 1..MaxInFlight :
                                     /\ inflight[j] # NoHandler
                                     /\ inflight[j].pc \in {"L455", "L478"}}}
    \cup UNION {Range(heap[o].completedTasksToday) : o \in {x \in ObjIds : Alive(x)}}
    \cup {heap[o].captchaState.task.id : o \in {x \in ObjIds : PendingTask(x)}}

\* C15: no two tasks of the catalog ever share an id, and every id /addtugas
\* assigns is strictly greater than every id assigned before, whatever
\* /hapustugas deleted in between (after id 1 was assigned, the next new task
\* gets id 2 even if task 1 has been deleted).
IdsNeverReused ==
    [][ /\ \A i, j \in DOMAIN tasks' : tasks'[i].id = tasks'[j].id => i = j
        /\ Len(tasks') > Len(tasks) => \A n \in KnownIds : tasks'[Len(tasks')].id > n
      ]_vars

\* task 1 is in the catalog again while the handler that deleted the first
\* task 1 still waits to report it
IdReused ==
    /\ Len(tasks) = 1 /\ tasks[1].id = 1
    /\ \E i \in 1..MaxInFlight :
          inflight[i] # NoHandler /\ inflight[i].pc = "L478" /\ inflight[i].num = 1

\* no handleMessage call is parked at an await (a timer callback never is)
NoEventRunning == \A i \in 1..MaxInFlight : inflight[i] = NoHandler

\* the three files hold what the memory holds
StoreMatches ==
    /\ disk.users = stringify(machine, USERS_DB_PATH)
    /\ disk.tasks = tasks
    /\ disk.config = config

\* C16: every mutation of the in-memory users, tasks or config is flushed
\* before the event that made it completes: whenever every handleMessage
\* call and every deadline callback has finished, the durable store holds
\* the in-memory state (the daily-rollover reset, /loginadmin and challenge
\* expiry included).
FlushedWhenDone == NoEventRunning => StoreMatches

\* every handler has returned and every write has completed; the user's
\* /menu on the new day has reset the record in memory, and users.json still
\* shows the old day
StaleAfterRollover ==
    /\ NoEventRunning
    /\ writes = {}
    /\ out = <<[to |-> "1@c.us", msg |-> "menu", val |-> 0]>>
    /\ users["1@c.us"] # 0
    /\ heap[users["1@c.us"]].lastLogin = 1
    /\ disk.users["1@c.us"] # NoObj
    /\ disk.users["1@c.us"].lastLogin = 0

\* the replies that confirm a credit; each tells the user the new balance
CreditReplies == {"selamatTugas", "selamatBonus", "selamatGame"}

\* C17: a reply that confirms a credit (task reward, daily bonus, game
\* reward) is sent only after the store write with the new balance has
\* completed: in the step that tells a user the new balance, users.json
\* already shows that balance for that user.
CreditToldAfterWrite ==
    [][ \A k \in DOMAIN out' :
            out'[k].msg \in CreditReplies =>
                /\ disk'.users[out'[k].to] # NoObj
                /\ disk'.users[out'[k].to].balance = out'[k].val
      ]_vars

\* the player has just been told a balance of 550 for the game won, and
\* users.json shows 250: the bonus claimed while the write of the win was in
\* progress is in the balance told and not in the file
ToldMoreThanStored ==
    /\ \E k \in DOMAIN out :
          out[k] = [to |-> "1@c.us", msg |-> "selamatGame", val |-> 550]
    /\ disk.users["1@c.us"] # NoObj
    /\ disk.users["1@c.us"].balance = GameReward

\* C18: the deadline timer /selesai starts is cancelled whenever its challenge
\* ends by any path other than the timer itself, and a cancelled timer never
\* runs its callback: in every reachable state a live (scheduled,
\* uncancelled, unfired) timer exists only for a user record that is still
\* awaiting the task challenge the timer was created for.
TimersOwned ==
    \A t \in timers :
        /\ users[t.from] # 0
        /\ PendingTask(users[t.from])
        /\ heap[users[t.from]].captchaState.timerId = t.id
        /\ heap[users[t.from]].captchaState.task.id = t.taskId

\* the user was deleted while a task challenge was pending, has registered
\* again and asked for the task again: two deadlines are live for the one
\* sender, and the older one will expire the new challenge
TwoDeadlines ==
    \E t1, t2 \in timers :
        /\ t1.id # t2.id
        /\ t1.from = t2.from
        /\ t1.taskId = t2.taskId
        /\ users[t1.from] # 0
        /\ PendingTask(users[t1.from])
        /\ heap[users[t1.from]].captchaState.timerId = t2.id

\* the mode of a user record
Mode(o) ==
    IF heap[o].captchaState.isWaiting THEN "AwaitingVerification"
    ELSE IF heap[o].inGame THEN "InGame"
    ELSE "Idle"

\* what verifyCaptcha replies, and the awaits it stops at
VerifyReplies == {"captchaBenar", "captchaSalah"}

VerifyAwaits == {"L363", "L370", "L376"}

\* what handleGameInput replies before its first await, and the awaits it
\* stops at
GameTurnReplies == {"angkaTidakValid", "terlaluRendah", "terlaluTinggi"}

GameTurnAwaits == {"L255", "L271"}

\* the handler of message (from, body) is not parked after this step, or is
\* parked at one of the awaits pcs
StopsAt(from, body, pcs) ==
    \A i \in 1..MaxInFlight :
        (inflight'[i] # inflight[i] /\ inflight'[i] # NoHandler) => inflight'[i].pc \in pcs

\* C19: command dispatch runs only for a user who is Idle.  A message handled
\* for a record that is AwaitingVerification is consumed as the challenge
\* answer (verifyCaptcha answers it and the record is Idle afterwards), a
\* message handled for a record that is InGame is consumed as a game turn
\* (handleGameInput answers it and the record stays InGame or becomes Idle),
\* whatever the text is; a new record is Idle, and the only mode changes of
\* a record are Idle -> AwaitingVerification, AwaitingVerification -> Idle,
\* Idle -> InGame and InGame -> Idle.
DispatchOnlyIdle ==
    [][ \A o \in ObjIds :
            /\ (~Alive(o) /\ Alive(o)') => Mode(o)' = "Idle"
            /\ (Alive(o) /\ Alive(o)') =>
                  \/ Mode(o)' = Mode(o)
                  \/ <<Mode(o), Mode(o)'>> \in
                         {<<"Idle", "AwaitingVerification">>, <<"AwaitingVerification", "Idle">>,
                          <<"Idle", "InGame">>, <<"InGame", "Idle">>}
            /\ (Alive(o) /\ ~Idle(o) /\ ~heap[o].isBlocked /\ MayProcess(o)) =>
                  \A from \in UserIds : \A body \in ModeBodies[from] :
                      Processes(o, from, body) =>
                          IF Mode(o) = "AwaitingVerification"
                          THEN /\ \A k \in DOMAIN out' :
                                     out'[k].msg \in VerifyReplies \cup {"selamatDatang"}
                               /\ Replies(from, VerifyReplies)
                               /\ StopsAt(from, body, VerifyAwaits)
                               /\ Alive(o)' => Mode(o)' = "Idle"
                          ELSE /\ \A k \in DOMAIN out' :
                                     out'[k].msg \in GameTurnReplies \cup {"selamatDatang"}
                               /\ StopsAt(from, body, GameTurnAwaits)
                               /\ Replies(from, GameTurnReplies)
                                     \/ \E i \in 1..MaxInFlight :
                                           /\ inflight'[i] # inflight[i]
                                           /\ inflight'[i] # NoHandler
                                           /\ inflight'[i].pc \in GameTurnAwaits
                               /\ Alive(o)' => Mode(o)' \in {"InGame", "Idle"}
      ]_vars

\* /game arrived during a challenge and was taken for a wrong answer:
\* the handler waits at the last write of verifyCaptcha and the sender is
\* not in a game
CommandTakenAsAnswer ==
    \E i \in 1..MaxInFlight :
        /\ inflight[i] # NoHandler
        /\ inflight[i].pc = "L376"
        /\ inflight[i].body = "/game"
        /\ out = <<[to |-> inflight[i].from, msg |-> "captchaSalah", val |-> 0]>>
        /\ Mode(inflight[i].user) = "Idle"
        /\ timers = {}

\* C20: a game target is present for a user exactly when that user is InGame:
\* every record in a game holds a target in 1..100, and no record outside a
\* game (newly created, after a win, after /exitgame) holds one.
TargetOnlyInGame ==
    \A o \in ObjIds :
        Alive(o) => (heap[o].inGame <=> heap[o].gameAnswer \in 1..100)

\* the game is won and paid, the record is Idle again, and it still holds the
\* target 51
TargetKeptAfterWin ==
    \E o \in ObjIds :
        /\ Idle(o)
        /\ heap[o].gameAnswer = 51
        /\ heap[o].balance = GameReward

\* the messages that are not the token `answer`, whatever the blanks around
\* them and the case of their letters
WrongBodies == [answer \in Tokens |-> Bodies \ TokenBodies[answer]]

\* C21: a reply that does not match the expected token consumes the
\* challenge.  When a message that is not the token is handled for a record
\* with a pending challenge (sender not blocked), the balance is unchanged,
\* claimedDailyBonus and completedTasksToday are as the daily reset leaves
\* them, the sender is told the answer was wrong, the timer of a task
\* challenge is cancelled, and the record is Idle with no challenge
\* afterwards, so the next message is not compared with the old token.
WrongAnswerConsumes ==
    [][ \A o \in ObjIds :
            (Pending(o) /\ ~heap[o].isBlocked /\ MayProcess(o)) =>
                \A from \in UserIds :
                    \A body \in DailyBodies[from] \cap WrongBodies[heap[o].captchaState.answer] :
                        Processes(o, from, body) =>
                            /\ Replies(from, {"captchaSalah"})
                            /\ ~Replies(from, {"captchaBenar", "selamatTugas", "selamatBonus"})
                            /\ PendingTask(o) =>
                                  \A t \in timers' : t.id # heap[o].captchaState.timerId
                            /\ Alive(o)' =>
                                  /\ heap'[o].balance = heap[o].balance
                                  /\ heap'[o].claimedDailyBonus =
                                         dailyReset(heap[o], today).claimedDailyBonus
                                  /\ heap'[o].completedTasksToday = AfterReset(heap[o])
                                  /\ heap'[o].captchaState = NotWaiting
                                  /\ ~heap'[o].inGame
      ]_vars

\* a wrong answer to a challenge has been handled and the token has then
\* been sent: the first handler waits at the last write of verifyCaptcha,
\* the second is on its way to the AI, nothing is credited and no deadline
\* is left
TokenAfterWrongAnswer ==
    \E i, j \in 1..MaxInFlight :
        /\ inflight[i] # NoHandler /\ inflight[i].pc = "L376" /\ inflight[i].body = "salah"
        /\ inflight[j] # NoHandler /\ inflight[j].pc = "L557" /\ inflight[j].body = " i "
        /\ inflight[j].user = inflight[i].user
        /\ heap[inflight[i].user].balance = 0
        /\ heap[inflight[i].user].completedTasksToday = <<>>
        /\ tasks # <<>>
        /\ timers = {}

\* what /selesai replies when it starts no challenge
SelesaiErrors == {"idTidakValid", "tugasTidakDitemukan", "sudahSelesai"}

\* C22: /selesai starts a task challenge only when the id parses, a task
\* with that id is in the catalog and the id is not in the sender's
\* completedTasksToday.  A /selesai command dispatched for a record (idle,
\* not blocked) in that case leaves the record waiting for a challenge of
\* that task with a new timer scheduled for it; in every other case it
\* replies with an error, schedules no timer, parks no handler and leaves
\* the record as the daily reset leaves it (still Idle).
SelesaiGuarded ==
    [][ \A o \in ObjIds :
            (Idle(o) /\ ~heap[o].isBlocked /\ MayProcess(o)) =>
                \A from \in UserIds : \A body \in SelesaiBodies[from] :
                    (commandNameOf[body] = "/selesai" /\ Processes(o, from, body)) =>
                        LET taskId == parseInt(at(argsOf[body], 1))
                            allowed == /\ ~isNaN(taskId)
                                       /\ \E i \in DOMAIN tasks : tasks[i].id = taskId.val
                                       /\ ~includes(AfterReset(heap[o]), taskId.val)
                        IN  IF allowed
                            THEN /\ ~Replies(from, SelesaiErrors)
                                 /\ \E t \in timers' \ timers :
                                       /\ t.from = from
                                       /\ t.taskId = taskId.val
                                       /\ timers' = timers \cup {t}
                                       /\ Alive(o)' =>
                                             /\ PendingTask(o)'
                                             /\ heap'[o].captchaState.task.id = taskId.val
                                             /\ heap'[o].captchaState.timerId = t.id
                            ELSE /\ Replies(from, SelesaiErrors)
                                 /\ timers' = timers
                                 /\ \A i \in 1..MaxInFlight :
                                       inflight'[i] \in {inflight[i], NoHandler}
                                 /\ Alive(o)' => heap'[o] = dailyReset(heap[o], today)
      ]_vars

\* the user has completed task 1 and has just been refused a second
\* challenge for it
SelesaiRefused ==
    /\ out = <<[to |-> "1@c.us", msg |-> "sudahSelesai", val |-> 0]>>
    /\ users["1@c.us"] # 0
    /\ heap[users["1@c.us"]].completedTasksToday = <<1>>
    /\ Idle(users["1@c.us"])
    /\ timers = {}

\* C23: /hapustugas removes only the catalog entry.  The step in which an
\* admin's /hapustugas is dispatched takes the first task with that id out
\* of the catalog (or leaves the catalog alone) and changes no user record,
\* no completedTasksToday, no pending challenge and no timer; and the token
\* of a pending task challenge, handled for its record, credits the reward
\* held in the challenge and records its task id whether or not the task is
\* still in the catalog.
DeleteTaskOnlyCatalog ==
    [][ \A o \in ObjIds :
            /\ (Idle(o) /\ ~heap[o].isBlocked /\ heap[o].isAdmin /\ MayProcess(o)) =>
                  \A from \in UserIds : \A body \in CatalogBodies[from] :
                      (commandNameOf[body] = "/hapustugas" /\ Processes(o, from, body)) =>
                          LET taskId == parseInt(at(argsOf[body], 1))
                              hits == {i \in DOMAIN tasks : tasks[i].id = taskId.val}
                          IN  /\ IF isNaN(taskId) \/ hits = {}
                                 THEN tasks' = tasks
                                 ELSE \E i \in hits :
                                         /\ \A j \in hits : i <= j
                                         /\ tasks' = SubSeq(tasks, 1, i - 1)
                                                         \o SubSeq(tasks, i + 1, Len(tasks))
                              /\ users' = users
                              /\ timers' = timers
                              /\ \A x \in ObjIds \ {o} : heap'[x] = heap[x]
                              /\ Alive(o)' => heap'[o] = dailyReset(heap[o], today)
            /\ (PendingTask(o) /\ ~heap[o].isBlocked /\ MayProcess(o)) =>
                  \A from \in UserIds :
                      \A body \in CatalogBodies[from] \cap TokenBodies[heap[o].captchaState.answer] :
                          (Processes(o, from, body) /\ Alive(o)') =>
                              /\ heap'[o].balance =
                                     heap[o].balance + heap[o].captchaState.task.bonus
                              /\ heap'[o].completedTasksToday =
                                     Append(AfterReset(heap[o]), heap[o].captchaState.task.id)
      ]_vars

\* the catalog is empty again, and the user whose challenge for task 1 was
\* pending when the task was deleted has answered it and holds its reward
DeletedTaskCredited ==
    /\ tasks = <<>>
    /\ users["1@c.us"] # 0
    /\ heap[users["1@c.us"]].balance = 150
    /\ heap[users["1@c.us"]].completedTasksToday = <<1>>
    /\ \E i \in 1..MaxInFlight :
          /\ inflight[i] # NoHandler /\ inflight[i].pc = "L363"
          /\ inflight[i].user = users["1@c.us"]

\* C24: store writes that change a user's record are serialized: when
\* several handlers have write-all calls of the users collection in flight
\* at once, no update is lost: once all of them have completed (no handler
\* is parked and no write is in progress), users.json holds the latest
\* in-memory users collection.
NoUpdateLost ==
    (NoEventRunning /\ writes = {}) => disk.users = stringify(machine, USERS_DB_PATH)

\* every handler has returned and every write has completed; the player's
\* balance is 250 in memory and 0 in users.json: the write of /game, called
\* before the write of the win, completed after it
CreditLost ==
    /\ NoEventRunning
    /\ writes = {}
    /\ users["1@c.us"] # 0
    /\ heap[users["1@c.us"]].balance = GameReward
    /\ ~heap[users["1@c.us"]].inGame
    /\ disk.users["1@c.us"] # NoObj
    /\ disk.users["1@c.us"].balance = 0
    /\ disk.users["1@c.us"].inGame

\* C25: a deadline callback only ever expires the challenge it was created
\* for: whenever the callback scheduled by one /selesai call clears a
\* challenge (and announces the expiry), that challenge is the one created by
\* that same call, the one that holds this timer's id.
ExpiresOwnChallenge ==
    [][ \A t \in timers :
            (TimerFire(t) /\ out' # <<>>) =>
                heap[users[t.from]].captchaState.timerId = t.id
      ]_vars

\* a deadline is scheduled whose sender waits for a challenge of the
\* deadline's task id that another /selesai call created: the callback's
\* test will pass and expire that challenge
StaleDeadlineArmed ==
    \E t \in timers :
        /\ users[t.from] # 0
        /\ PendingTask(users[t.from])
        /\ heap[users[t.from]].captchaState.task.id = t.taskId
        /\ heap[users[t.from]].captchaState.timerId # t.id

\* C26: every task challenge eventually ends: a user whose record waits for
\* the answer to a task challenge eventually has a record that does not (or
\* no record), even if the user never sends another message, assuming only
\* that a scheduled, uncancelled timer eventually fires.
ChallengeEnds ==
    \A u \in UserIds :
        (users[u] # 0 /\ PendingTask(users[u]))
            ~> (users[u] = 0 \/ ~PendingTask(users[u]))

\* the deadline of the only challenge has passed without any answer: the
\* user is Idle with nothing credited, nothing is scheduled and no handler
\* is parked
DeadlinePassed ==
    /\ out = <<[to |-> "1@c.us", msg |-> "waktuHabis", val |-> 0]>>
    /\ timers = {}
    /\ \A i \in 1..MaxInFlight : inflight[i] = NoHandler
    /\ users["1@c.us"] # 0
    /\ Idle(users["1@c.us"])
    /\ heap[users["1@c.us"]].balance = 0
    /\ received = 4

\* C27: a task challenge that is pending in the users map always has its
\* deadline scheduled, also after the process has restarted and reloaded
\* its state from the store, so that it expires at its deadline and a
\* correct answer delivered later earns no credit.
PendingHasDeadline ==
    \A u \in UserIds :
        (users[u] # 0 /\ PendingTask(users[u])) =>
            \E t \in timers :
                /\ t.id = heap[users[u]].captchaState.timerId
                /\ t.from = u
                /\ t.taskId = heap[users[u]].captchaState.task.id

\* after a restart a reloaded record still waits for the answer to its task
\* challenge and no callback is scheduled at all
PendingWithoutDeadline ==
    /\ timers = {}
    /\ NoEventRunning
    /\ writes = {}
    /\ \E u \in UserIds : users[u] # 0 /\ PendingTask(users[u])

\* this step is a call of handleMessage for a /game message of `from`, with
\* some value of Math.random(), handled on object o
StartsGame(o, from) ==
    \E body \in {b \in TargetBodies[from] : commandNameOf[b] = "/game"} :
        \/ /\ received' = received + 1
           /\ users[from] = o
           /\ \E r \in RandomDraws : Receive(from, body, r)
        \/ /\ received' = received
           /\ \E i \in 1..MaxInFlight :
                 /\ inflight[i] # NoHandler
                 /\ inflight[i].pc = "L143"
                 /\ inflight[i].user = o
                 /\ inflight[i].from = from
                 /\ inflight[i].body = body
                 /\ \E r \in RandomDraws, fail \in BOOLEAN : Resume(i, r, fail)

\* C28: whenever a user is InGame, gameAnswer is an integer in [1,100] fixed
\* at /game time.  A record enters a game only in a step that handles a
\* /game message of its user; while it stays in the game no step changes
\* gameAnswer; and every reply to a guess compares the guess with that one
\* target: too low only for a guess below it, too high only for a guess
\* above it, and the game is won only by the guess equal to it.
TargetFixed ==
    [][ \A o \in ObjIds :
            /\ (Alive(o)' /\ heap'[o].inGame) => heap'[o].gameAnswer \in 1..100
            /\ (Alive(o) /\ Alive(o)' /\ heap[o].inGame /\ heap'[o].inGame) =>
                   heap'[o].gameAnswer = heap[o].gameAnswer
            /\ (Alive(o)' /\ heap'[o].inGame /\ ~(Alive(o) /\ heap[o].inGame)) =>
                   \E from \in UserIds : StartsGame(o, from)
            /\ (Alive(o) /\ heap[o].inGame /\ ~heap[o].isBlocked /\ MayProcess(o)) =>
                   \A from \in UserIds : \A body \in TargetBodies[from] :
                       (Processes(o, from, body) /\ Alive(o)') =>
                           LET guess == parseIntOf[body] IN
                           /\ Replies(from, {"terlaluRendah"}) =>
                                  ~isNaN(guess) /\ guess.val < heap[o].gameAnswer
                           /\ Replies(from, {"terlaluTinggi"}) =>
                                  ~isNaN(guess) /\ guess.val > heap[o].gameAnswer
                           /\ (~heap'[o].inGame /\ commandOf[body] # "/exitgame") =>
                                  ~isNaN(guess) /\ guess.val = heap[o].gameAnswer
      ]_vars

\* in a game whose target is 100 the guess 51 has just been called too low
TooLowForHundred ==
    \E o \in ObjIds :
        /\ Alive(o)
        /\ heap[o].inGame
        /\ heap[o].gameAnswer = 100
        /\ \E u \in UserIds :
               /\ users[u] = o
               /\ out = <<[to |-> u, msg |-> "terlaluRendah", val |-> 0]>>

\* C29: within one calendar day a user's completedTasksToday only grows and
\* never contains the same task id twice; it shrinks only by the
\* daily-rollover reset, and an id enters it only through a correctly
\* answered task challenge for that id.  A new record starts with the empty
\* list; a step leaves the list of a record whose lastLogin is today as it is
\* or appends one id to it; any other change is the reset of a record whose
\* lastLogin is not today, in a step that handles a message on that record;
\* an id that is in the list after a step and was not in the list before it
\* (or was, and the step has reset the record) is the id of the record's
\* pending task challenge, and the step handles a message that is the token
\* of that challenge.
TasksOnlyGrow ==
    [][ \A o \in ObjIds :
            LET old == heap[o].completedTasksToday
                new == heap'[o].completedTasksToday
            IN  /\ (Alive(o)' /\ ~Alive(o)) => new = <<>>
                /\ Alive(o)' => NoDuplicates(new)
                /\ (Alive(o) /\ Alive(o)') =>
                      /\ heap[o].lastLogin = today =>
                             \/ new = old
                             \/ \E id \in Range(new) : new = Append(old, id)
                      /\ (new # old /\ ~\E id \in Range(new) : new = Append(old, id)) =>
                             /\ heap[o].lastLogin # today
                             /\ heap'[o].lastLogin = today
                             /\ MayProcess(o)
                             /\ new = <<>> \/ \E id \in Range(new) : new = <<id>>
                      /\ \A id \in Range(new) \
                                  (IF heap'[o].lastLogin # heap[o].lastLogin
                                   THEN {} ELSE Range(old)) :
                             /\ PendingTask(o)
                             /\ heap[o].captchaState.task.id = id
                             /\ ~heap[o].isBlocked
                             /\ MayProcess(o)
                             /\ \E from \in UserIds :
                                    \E body \in DailyBodies[from] \cap
                                                TokenBodies[heap[o].captchaState.answer] :
                                        Processes(o, from, body)
      ]_vars

\* task 1 was completed on day 0 and, after the reset, again on day 1: the
\* list holds the id once and both rewards are in the balance
DoneAgainNextDay ==
    \E o \in ObjIds :
        /\ Alive(o)
        /\ heap[o].completedTasksToday = <<1>>
        /\ heap[o].lastLogin = 1
        /\ today = 1
        /\ heap[o].balance = 300

\* C30: a message from a user whose isBlocked is true produces no reply and
\* changes nothing.  The step that handles a message on a blocked record
\* sends nothing (only the welcome when it is the first message of a sender
\* who was blocked while the registration write was in progress: the welcome
\* precedes the test of isBlocked), parks no handler, schedules and cancels
\* no timer, and leaves the users map, every user record, the task catalog
\* and the configuration unchanged: no daily reset, no verification of a
\* pending challenge, no game turn and no command dispatch.
BlockedIgnored ==
    [][ \A o \in ObjIds :
            (Alive(o) /\ heap[o].isBlocked /\ MayProcess(o)) =>
                \A from \in UserIds : \A body \in DailyBodies[from] :
                    Processes(o, from, body) =>
                        /\ out' = IF received' = received
                                  THEN <<[to |-> from, msg |-> "selamatDatang", val |-> 0]>>
                                  ELSE <<>>
                        /\ \A i \in 1..MaxInFlight : inflight'[i] \in {inflight[i], NoHandler}
                        /\ users' = users
                        /\ \A x \in ObjIds : Alive(x)' => heap'[x] = heap[x]
                        /\ tasks' = tasks
                        /\ config' = config
                        /\ timers' = timers
                        /\ writes' = writes
      ]_vars

\* a sender was blocked with a claim challenge pending and has sent a
\* message since: no step but the drop of a blocked sender's message ends
\* with no reply and no handler parked on a day without a change of date and
\* without any timer
BlockedMessageDropped ==
    /\ today = 0
    /\ tasks = <<>>
    /\ out = <<>>
    /\ NoEventRunning
    /\ received > 0
    /\ \E u \in UserIds :
           /\ users[u] # 0
           /\ heap[users[u]].isBlocked
           /\ PendingClaim(users[u])

\* the admin commands that act on another user's record
UserAdminCommands == {"/blockuser", "/unblockuser", "/deleteuser"}

\* message `body` is one of those commands and names user b
Names(body, b) ==
    /\ commandNameOf[body] \in UserAdminCommands
    /\ at(argsOf[body], 1) # <<>>
    /\ targetIdOf(at(argsOf[body], 1)[1]) = b

\* user b has the same record, with the same fields, after this step
RecordKept(b) ==
    /\ users'[b] = users[b]
    /\ users[b] # 0 => heap'[users[b]] = heap[users[b]]

\* C31: handling a message from user A never changes any field of another
\* user B's record, except through the admin commands /blockuser,
\* /unblockuser and /deleteuser sent by an admin and naming B; and no command
\* sent by a non-admin changes the task catalog or the config.  In the step
\* that handles A's message on a record x, every other user B keeps their
\* record unless x is an admin's and the message is one of the three
\* commands naming B, and then B's record is removed or differs in isBlocked
\* only; when x is not an admin's record, tasks and config are unchanged;
\* and the steps that continue a handler after a store write change no
\* record, no task and no configuration at all.
OthersUntouched ==
    [][ /\ \A x \in ObjIds :
              (Alive(x) /\ MayProcess(x)) =>
                  \A a \in UserIds : \A body \in FrameBodies[a] :
                      Processes(x, a, body) =>
                          /\ \A b \in UserIds \ {a} :
                                 IF heap[x].isAdmin /\ Names(body, b)
                                 THEN \/ users'[b] = 0
                                      \/ /\ users'[b] = users[b]
                                         /\ heap'[users[b]] =
                                                [heap[users[b]] EXCEPT
                                                    !.isBlocked = heap'[users[b]].isBlocked]
                                 ELSE RecordKept(b)
                          /\ ~heap[x].isAdmin => (tasks' = tasks /\ config' = config)
        /\ \A i \in 1..MaxInFlight :
              ( /\ inflight[i] # NoHandler
                /\ inflight[i].pc # "L143"
                /\ received' = received
                /\ inflight'[i] # inflight[i] ) =>
                  /\ \A b \in UserIds : RecordKept(b)
                  /\ tasks' = tasks
                  /\ config' = config
      ]_vars

\* the admin has just been told that the other sender is blocked: that
\* sender's record is blocked with its claim challenge still pending and its
\* balance as before
OtherUserBlocked ==
    /\ out = <<[to |-> Admin, msg |-> "diblokir", val |-> 0]>>
    /\ users["1@c.us"] # 0
    /\ heap[users["1@c.us"]].isBlocked
    /\ PendingClaim(users["1@c.us"])
    /\ heap[users["1@c.us"]].balance = 0
    /\ ~heap[users["1@c.us"]].isAdmin

\* C32: if the date rolls over while a challenge is pending, the answering
\* message first applies the daily reset and only then resolves the
\* challenge.  The step that handles the token of a challenge pending on a
\* record whose lastLogin is not today leaves the record with lastLogin
\* today and no challenge; for a task challenge with the reward added, the
\* task's id as the only entry of completedTasksToday and claimedDailyBonus
\* false; for a claim challenge with a bonus from the configured range added,
\* claimedDailyBonus true and completedTasksToday empty.  For the rest of
\* that day the entry and the flag stay, a /selesai for a recorded id is
\* refused as already done and a /klaim with the flag set as already
\* claimed, with the record unchanged: neither can be earned again.
RolloverAnswered ==
    [][ \A o \in ObjIds :
            /\ (Pending(o) /\ ~heap[o].isBlocked /\ heap[o].lastLogin # today /\ MayProcess(o)) =>
                   \A from \in UserIds :
                       \A body \in RolloverBodies[from] \cap TokenBodies[heap[o].captchaState.answer] :
                           Processes(o, from, body) =>
                               /\ heap'[o].lastLogin = today
                               /\ heap'[o].captchaState = NotWaiting
                               /\ IF heap[o].captchaState.type = "task"
                                  THEN /\ heap'[o].balance =
                                              heap[o].balance + heap[o].captchaState.task.bonus
                                       /\ heap'[o].completedTasksToday =
                                              <<heap[o].captchaState.task.id>>
                                       /\ ~heap'[o].claimedDailyBonus
                                  ELSE /\ heap'[o].balance - heap[o].balance \in
                                              config.dailyBonus.min..config.dailyBonus.max
                                       /\ heap'[o].claimedDailyBonus
                                       /\ heap'[o].completedTasksToday = <<>>
            /\ (Alive(o) /\ Alive(o)' /\ heap[o].lastLogin = today) =>
                   /\ heap[o].claimedDailyBonus => heap'[o].claimedDailyBonus
                   /\ Range(heap[o].completedTasksToday) \subseteq
                          Range(heap'[o].completedTasksToday)
            /\ (Idle(o) /\ ~heap[o].isBlocked /\ heap[o].lastLogin = today /\ MayProcess(o)) =>
                   \A from \in UserIds : \A body \in RolloverBodies[from] :
                       Processes(o, from, body) =>
                           /\ ( /\ commandNameOf[body] = "/selesai"
                                /\ ~isNaN(parseInt(at(argsOf[body], 1)))
                                /\ includes(heap[o].completedTasksToday,
                                            parseInt(at(argsOf[body], 1)).val) ) =>
                                  /\ Replies(from, {"sudahSelesai"})
                                  /\ heap'[o] = heap[o]
                                  /\ timers' = timers
                           /\ (commandNameOf[body] = "/klaim" /\ heap[o].claimedDailyBonus) =>
                                  /\ Replies(from, {"sudahKlaim"})
                                  /\ heap'[o] = heap[o]
      ]_vars

\* the only task challenge the sender ever had was written to users.json on
\* day 0 and answered on day 1: the record holds the reward and the task's
\* id for day 1, and the /selesai sent after the answer has just been
\* refused
TaskAnsweredNextDay ==
    /\ received = 3
    /\ today = 1
    /\ out = <<[to |-> "1@c.us", msg |-> "sudahSelesai", val |-> 0]>>
    /\ users["1@c.us"] # 0
    /\ heap[users["1@c.us"]].lastLogin = 1
    /\ heap[users["1@c.us"]].completedTasksToday = <<1>>
    /\ heap[users["1@c.us"]].balance = 150
    /\ disk.users["1@c.us"] # NoObj
    /\ disk.users["1@c.us"].lastLogin = 0
    /\ disk.users["1@c.us"].captchaState.isWaiting
    /\ disk.users["1@c.us"].captchaState.type = "task"

====
